---- MODULE Spec2Model ----
(***************************************************************************)
(* A model of trade-agent-brain: the response quality guard, the agent     *)
(* registry and the conversation threads of its handles, the human-in-the- *)
(* loop email confirmation and the memory of a session (history recovery,  *)
(* context retrieval, summary compaction).                                 *)
(*                                                                         *)
(* Scores are IEEE-754 doubles in the source.  The model writes a score as *)
(* an integer: 100 units per hundredth (1.0 is 10000) plus the rank of the *)
(* double among the doubles that round to the same hundredth, so that the  *)
(* order of the model's scores is the order of the doubles the code        *)
(* compares.                                                               *)
(***************************************************************************)
EXTENDS Integers, Sequences, FiniteSets, TLC

VARIABLES
    \* ResponseQualityGuardMiddleware.wrap_model_call
    min_score,      \* self.min_score
    qg_pc,          \* "loop" while the for loop runs, "returned" after a return
    attempt,        \* the loop variable: the number of handler calls made
    best_response,  \* 0 is None, k is the response of handler call k
    best_score,
    attempts,       \* what each handler call got and produced
    returned,       \* the value returned: 0 is None, k the response of call k
    \* create_cross_border_agent
    agent_cache,    \* _agent_cache: key -> instance, 0 when the key is absent
    factory_lock,   \* _factory_lock: the caller holding it, 0 when free
    instances,      \* the CrossBorderAgent objects constructed: instance i has key instances[i]
    callers,        \* each caller's position and locals
    \* the email confirmation of one conversation thread
    ck,             \* the thread's checkpoint
    actions,        \* the send_email_notification calls the model made
    mcp_calls,      \* the calls of the MCP tool sendEmailNotification, in order
    reqs,           \* the requests in flight: each one's position and locals
    runs,           \* the number of requests received
    \* the memory of one session
    context,        \* whether runtime.context is given to the hooks
    buffer,         \* state["messages"] of the thread
    db_messages,    \* the rows of chat_messages
    db_summaries,   \* the rows of chat_messages_summaries
    persist_tasks,  \* the _do_persist tasks submitted to _executor
    mem_pc,         \* the position of the turn
    updates,        \* before_agent's updates and what recovery read
    retrieval,      \* the retrieval task of _retrieve_context
    retrieved,      \* context.retrieved_summaries: how many, 0 for None
    mem_ids,        \* the next value of generate_id
    turn,           \* the turns begun and the model calls of this turn
    compacted,      \* what before_model last did to the messages
    \* a function called on its own
    call,           \* the function, its arguments and, once it has run, its result
    \* the checkpointer the handles share
    threads         \* the conversation state kept under each thread_id

qg_vars == <<min_score, qg_pc, attempt, best_response, best_score, attempts, returned>>

reg_vars == <<agent_cache, factory_lock, instances, callers>>

hitl_vars == <<ck, actions, mcp_calls, reqs, runs>>

mem_vars == <<context, buffer, db_messages, db_summaries, persist_tasks, mem_pc,
              updates, retrieval, retrieved, mem_ids, turn, compacted>>

fn_vars == <<call>>

cp_vars == <<threads>>

vars == <<qg_vars, reg_vars, hitl_vars, mem_vars, fn_vars, cp_vars>>

None == 0

\* No function is called on its own.
NoCall == [fn |-> "none"]

CallIdle == call = NoCall

(***************************************************************************)
(* Quality guard                                                           *)
(***************************************************************************)

max_retries == 2

\* The thresholds a guard is configured with: 0.6 (the default and the
\* orchestrator's) and 0.5.
MinScores == {5000, 6000}

HallucinationPhrases == 7

\* The bound on the phrases a modelled text matches.
MaxPhrases == 3

\* <<len(content), len(content.strip())>> of the modelled texts.
TextLengths ==
    {<<0, 0>>, <<9, 9>>, <<12, 9>>, <<10, 10>>, <<20, 20>>, <<60, 20>>, <<60, 60>>}

NoContent ==
    [is_str |-> FALSE, len |-> 0, striplen |-> 0, chinese_chars |-> 0,
     phrases |-> 0, privacy |-> FALSE]

Min(a, b) == IF a <= b THEN a ELSE b

\* The text contents: what _evaluate_response measures of a string.
TextContents ==
    {c \in [is_str : {TRUE}, len : {l[1] : l \in TextLengths},
            striplen : {l[2] : l \in TextLengths},
            chinese_chars : {0, 10, 30},
            phrases : 0 .. Min(MaxPhrases, HallucinationPhrases),
            privacy : BOOLEAN] :
        /\ <<c.len, c.striplen>> \in TextLengths
        /\ c.chinese_chars \in {0, c.striplen \div 2}
        \* a phone number has 11 characters, a phrase at least 5
        /\ c.privacy => c.striplen >= 11 + c.chinese_chars
        /\ c.striplen >= 5 * c.phrases}

\* ModelResponse: result is "empty" (no response or an empty result list),
\* "ai" (result[0] is an AIMessage) or "other".
Responses ==
    {[result |-> "empty", tool_calls |-> FALSE, content |-> NoContent],
     [result |-> "other", tool_calls |-> FALSE, content |-> NoContent],
     [result |-> "ai", tool_calls |-> TRUE, content |-> NoContent]}
    \cup [result : {"ai"}, tool_calls : BOOLEAN, content : TextContents]

\* Every response is taken for a text.
ExtractAsText(response) == [none |-> FALSE, content |-> response.content]

\* _extract_content: none is TRUE for None.
ExtractContent(response) ==
    IF response.result = "empty" THEN [none |-> TRUE, content |-> NoContent]
    ELSE IF response.result = "ai"
         THEN IF response.tool_calls
                 /\ (~response.content.is_str \/ response.content.len = 0)
              THEN [none |-> TRUE, content |-> NoContent]
              ELSE IF response.content.is_str
                   THEN [none |-> FALSE, content |-> response.content]
                   ELSE [none |-> TRUE, content |-> NoContent]
         ELSE [none |-> TRUE, content |-> NoContent]

Issue(tag, n) == [tag |-> tag, n |-> n]

\* The rank of the double that lines 94-126 compute among the doubles that
\* round to the same hundredth (0 for the double nearest to the hundredth),
\* by the penalties applied: hp is the phrase penalty in hundredths.
FloatRank(hp, p, l, s) ==
    CASE <<hp, p, l, s>> = <<0, FALSE, TRUE, TRUE>> -> 1
      [] <<hp, p, l, s>> = <<0, TRUE, TRUE, TRUE>> -> -1
      [] <<hp, p, l, s>> = <<15, FALSE, TRUE, FALSE>> -> -1
      [] <<hp, p, l, s>> = <<15, FALSE, TRUE, TRUE>> -> -1
      [] <<hp, p, l, s>> = <<15, TRUE, FALSE, TRUE>> -> -1
      [] <<hp, p, l, s>> = <<15, TRUE, TRUE, FALSE>> -> -1
      [] <<hp, p, l, s>> = <<15, TRUE, TRUE, TRUE>> -> -1
      [] <<hp, p, l, s>> = <<30, FALSE, TRUE, FALSE>> -> -1
      [] <<hp, p, l, s>> = <<30, FALSE, TRUE, TRUE>> -> -2
      [] <<hp, p, l, s>> = <<30, TRUE, FALSE, FALSE>> -> -2
      [] <<hp, p, l, s>> = <<30, TRUE, FALSE, TRUE>> -> -2
      [] <<hp, p, l, s>> = <<40, FALSE, TRUE, FALSE>> -> -1
      [] <<hp, p, l, s>> = <<40, FALSE, TRUE, TRUE>> -> -1
      [] <<hp, p, l, s>> = <<40, TRUE, FALSE, FALSE>> -> -1
      [] OTHER -> 0

\* An evaluation that measures the length of the untrimmed text.
EvaluateResponseUntrimmed(content) ==
    IF content.len = 0 \/ content.len < 10
    THEN [score |-> 0, issues |-> <<Issue("empty_response", 0)>>]
    ELSE LET hallucination_count == content.phrases
             hp == IF hallucination_count > 0
                   THEN Min(hallucination_count * 15, 40) ELSE 0
             p == content.privacy
             l == content.len > 50
                  /\ content.chinese_chars * 100 < 15 * content.len
             s == 10 < content.striplen /\ content.striplen < 30
             hundredths == 100 - hp - (IF p THEN 50 ELSE 0)
                               - (IF l THEN 20 ELSE 0) - (IF s THEN 10 ELSE 0)
             score == IF hundredths <= 0 THEN 0
                      ELSE 100 * hundredths + FloatRank(hp, p, l, s)
             issues ==
                 (IF hallucination_count > 0
                  THEN <<Issue("hallucination_phrases", hallucination_count)>>
                  ELSE <<>>)
                 \o (IF p THEN <<Issue("privacy_leak", 0)>> ELSE <<>>)
                 \o (IF l THEN <<Issue("language_mismatch", 0)>> ELSE <<>>)
                 \o (IF s THEN <<Issue("too_short", 0)>> ELSE <<>>)
         IN [score |-> score, issues |-> issues]

\* _evaluate_response: <<score, issues>>.
EvaluateResponse(content) ==
    IF content.len = 0 \/ content.striplen < 10
    THEN [score |-> 0, issues |-> <<Issue("empty_response", 0)>>]
    ELSE LET hallucination_count == content.phrases
             hp == IF hallucination_count > 0
                   THEN Min(hallucination_count * 15, 40) ELSE 0
             p == content.privacy
             l == content.len > 50
                  /\ content.chinese_chars * 100 < 15 * content.len
             s == 10 < content.striplen /\ content.striplen < 30
             hundredths == 100 - hp - (IF p THEN 50 ELSE 0)
                               - (IF l THEN 20 ELSE 0) - (IF s THEN 10 ELSE 0)
             score == IF hundredths <= 0 THEN 0
                      ELSE 100 * hundredths + FloatRank(hp, p, l, s)
             issues ==
                 (IF hallucination_count > 0
                  THEN <<Issue("hallucination_phrases", hallucination_count)>>
                  ELSE <<>>)
                 \o (IF p THEN <<Issue("privacy_leak", 0)>> ELSE <<>>)
                 \o (IF l THEN <<Issue("language_mismatch", 0)>> ELSE <<>>)
                 \o (IF s THEN <<Issue("too_short", 0)>> ELSE <<>>)
         IN [score |-> score, issues |-> issues]

HasIssue(issues, tag) == \E i \in 1 .. Len(issues) : issues[i].tag = tag

\* A guard that adds the quality hint to every request, the first included.
EnhancedRequestOf(n, prev_response, prev_score) ==
    [enhanced |-> TRUE, prev_response |-> prev_response,
     prev_score |-> prev_score, hint_no |-> n + 1]

\* The request of handler call number attempt + 1: the original request, or
\* _enhance_request(request, best_response, best_score, attempt).
RequestOf(n, prev_response, prev_score) ==
    IF n = 0
    THEN [enhanced |-> FALSE, prev_response |-> None, prev_score |-> 0, hint_no |-> 0]
    ELSE [enhanced |-> TRUE, prev_response |-> prev_response,
          prev_score |-> prev_score, hint_no |-> n + 1]

\* A guard that keeps the latest attempt as the best one.
LatestIsBest(score, best) == TRUE

\* A guard that keeps the latest of the equal best attempts.
BetterOrEqualToBest(score, best) == score >= best

\* line 74: if score > best_score
BetterThanBest(score, best) == score > best

\* A guard that accepts only a score above the threshold.
PassesStrictly(score, threshold) == score > threshold

\* line 78: if score >= self.min_score
Passes(score, threshold) == score >= threshold

\* line 90: return best_response
Fallback(best) == best

\* The four numbered lines of quality_hint: no filler, Chinese and concise,
\* no private data, a complete answer.
HintRules == {"no_filler", "chinese_concise", "no_privacy", "complete"}

\* f"{prev_score:.1f}", in tenths: the doubles of the scores 0.85, 0.65,
\* 0.55, 0.35, 0.25, 0.15 and 0.05 lie under the tie and are rounded down,
\* 0.75 is the tie itself and goes to the even digit.
FormatTenths(score) ==
    LET hundredths == (score + 50) \div 100
    IN IF hundredths % 10 = 5
       THEN IF hundredths = 75 THEN 8 ELSE hundredths \div 10
       ELSE (hundredths + 5) \div 10

\* _enhance_request: what quality_hint tells the model.
QualityHint(request) ==
    [attempt_no |-> request.hint_no,
     score |-> FormatTenths(request.prev_score),
     rules |-> HintRules]

QGInit ==
    /\ min_score \in MinScores
    /\ qg_pc = "loop"
    /\ attempt = 0
    /\ best_response = None
    /\ best_score = 0
    /\ attempts = <<>>
    /\ returned = None

\* A response with no text in it: no result, or an AIMessage that only
\* calls tools.
NoExtractableText(response) ==
    \/ response.result = "empty"
    \/ response.result = "ai" /\ response.tool_calls /\ response.content.len = 0

\* One iteration of the for loop: the handler answers with response.
QGAttempt(response) ==
    /\ UNCHANGED <<reg_vars, hitl_vars, mem_vars, fn_vars, cp_vars>>
    /\ qg_pc = "loop"
    /\ attempt < 1 + max_retries
    /\ LET request == RequestOf(attempt, best_response, best_score)
           k == attempt + 1
           ai_content == ExtractContent(response)
           verdict == EvaluateResponse(ai_content.content)
       IN IF ai_content.none
          THEN /\ attempts' = Append(attempts,
                     [request |-> request, no_text |-> NoExtractableText(response),
                      text |-> FALSE,
                      content |-> NoContent, score |-> 0, issues |-> <<>>])
               /\ returned' = k
               /\ qg_pc' = "returned"
               /\ attempt' = attempt
               /\ UNCHANGED <<best_response, best_score>>
          ELSE /\ attempts' = Append(attempts,
                     [request |-> request, no_text |-> NoExtractableText(response),
                      text |-> TRUE,
                      content |-> ai_content.content, score |-> verdict.score,
                      issues |-> verdict.issues])
               /\ IF BetterThanBest(verdict.score, best_score)
                  THEN best_score' = verdict.score /\ best_response' = k
                  ELSE UNCHANGED <<best_response, best_score>>
               /\ IF Passes(verdict.score, min_score)
                  THEN /\ returned' = k
                       /\ qg_pc' = "returned"
                       /\ attempt' = attempt
                  ELSE \* the privacy branch continues, and so does the
                       \* fall through to the end of the loop body
                       /\ attempt' = attempt + 1
                       /\ UNCHANGED <<returned, qg_pc>>
    /\ UNCHANGED min_score

QGHandlerCall == \E response \in Responses : QGAttempt(response)

\* The loop ran out: return best_response.
QGExhausted ==
    /\ UNCHANGED <<reg_vars, hitl_vars, mem_vars, fn_vars, cp_vars>>
    /\ qg_pc = "loop"
    /\ attempt = 1 + max_retries
    /\ returned' = Fallback(best_response)
    /\ qg_pc' = "returned"
    /\ UNCHANGED <<min_score, attempt, best_response, best_score, attempts>>

QGNext == QGHandlerCall \/ QGExhausted

\* The responses of the runs whose termination is checked: no text, and the
\* texts without Chinese characters that match at most one phrase.
CoreResponses ==
    {r \in Responses :
        /\ r.content.chinese_chars = 0
        /\ r.content.phrases <= 1
        /\ r.result = "ai" => ~r.tool_calls \/ ~r.content.is_str}

QGCoreHandlerCall == \E response \in CoreResponses : QGAttempt(response)

QGCoreNext == QGCoreHandlerCall \/ QGExhausted

(***************************************************************************)
(* Quality guard: properties                                               *)
(***************************************************************************)

AllText == \A k \in 1 .. Len(attempts) : attempts[k].text

MaxScore == CHOOSE m \in {attempts[k].score : k \in 1 .. Len(attempts)} :
                \A k \in 1 .. Len(attempts) : attempts[k].score <= m

\* The earliest attempt with the highest score.
EarliestBest == CHOOSE k \in 1 .. Len(attempts) :
                    /\ attempts[k].score = MaxScore
                    /\ \A j \in 1 .. k - 1 : attempts[j].score < MaxScore

\* C7: wrap_model_call never blocks a reply: when every handler output
\* contains text, the value returned is the response of one of the handler
\* calls made, never None.
C7_NeverBlocksReply ==
    (qg_pc = "returned" /\ AllText) => returned \in 1 .. Len(attempts)

\* C8: when all 1 + max_retries attempts fail the threshold and one of them
\* scored above 0, the response returned is the earliest attempt with the
\* highest score.
C8_ReturnsEarliestBest ==
    (/\ qg_pc = "returned"
     /\ Len(attempts) = 1 + max_retries
     /\ AllText
     /\ \A k \in 1 .. Len(attempts) : attempts[k].score < min_score
     /\ \E k \in 1 .. Len(attempts) : attempts[k].score > 0)
    => returned = EarliestBest

\* Retries ran out, two attempts share the highest score and the first of
\* them is returned.
C8_Witness ==
    /\ qg_pc = "returned"
    /\ Len(attempts) = 1 + max_retries
    /\ AllText
    /\ \A k \in 1 .. Len(attempts) : attempts[k].score < min_score
    /\ attempts[1].score < attempts[2].score
    /\ attempts[2].score = attempts[3].score
    /\ returned = 2

\* C9: a response flagged privacy_leak is never returned by the early-accept
\* path (a return from inside the loop), whatever the threshold.
C9_LeakNeverEarlyAccepted ==
    (/\ qg_pc = "returned"
     /\ attempt < 1 + max_retries
     /\ attempts[Len(attempts)].text)
    => ~HasIssue(attempts[Len(attempts)].issues, "privacy_leak")

UnderMinimumLength(a) == a.text /\ a.content.striplen < 10

\* C11: one wrap_model_call calls the handler at least once and at most
\* 1 + max_retries times, the first call gets the unmodified request, and the
\* call returns when every handler call returns.
C11_BoundedHandlerCalls ==
    /\ [](Len(attempts) <= 1 + max_retries)
    /\ [](qg_pc = "returned" => Len(attempts) >= 1)
    /\ [](Len(attempts) >= 1 => ~attempts[1].request.enhanced)
    /\ <>(qg_pc = "returned")

\* The whole budget was used: 1 + max_retries handler calls, the first with
\* the original request and the later ones with the hint.
C11_Witness ==
    /\ qg_pc = "returned"
    /\ Len(attempts) = 1 + max_retries
    /\ ~attempts[1].request.enhanced
    /\ \A k \in 2 .. Len(attempts) : attempts[k].request.enhanced

C13_LeakNotPreferredToBetterClean ==
    (/\ qg_pc = "returned"
     /\ returned \in 1 .. Len(attempts)
     /\ attempts[returned].text
     /\ attempts[returned].content.privacy)
    => ~\E j \in 1 .. Len(attempts) :
           /\ attempts[j].text
           /\ ~attempts[j].content.privacy
           /\ attempts[j].score > attempts[returned].score

\* Retries ran out and the response returned has a privacy match, because the
\* leak-free response of a later attempt scored lower.
C13_Witness ==
    /\ qg_pc = "returned"
    /\ Len(attempts) = 1 + max_retries
    /\ returned \in 1 .. Len(attempts)
    /\ attempts[returned].text
    /\ attempts[returned].content.privacy
    /\ \E j \in returned + 1 .. Len(attempts) :
           /\ attempts[j].text
           /\ ~attempts[j].content.privacy
           /\ attempts[j].score > 0
           /\ attempts[j].score < attempts[returned].score

\* max(0, 1 - min(0.15 * phrases, 0.4) - 0.5 - 0.2 - 0.1), in the model's
\* units: the privacy penalty once, each penalty when its condition holds.
FormulaScore(content) ==
    LET hundredths ==
            100 - Min(15 * content.phrases, 40)
                - (IF content.privacy THEN 50 ELSE 0)
                - (IF content.len > 50
                      /\ content.chinese_chars * 100 < 15 * content.len
                   THEN 20 ELSE 0)
                - (IF 10 < content.striplen /\ content.striplen < 30
                   THEN 10 ELSE 0)
    IN 100 * (IF hundredths < 0 THEN 0 ELSE hundredths)

\* C14: every score lies in [0, 1], and the score of a text at or above the
\* minimum length is the value of the formula.
C14_ScoreIsFormula ==
    \A k \in 1 .. Len(attempts) :
        attempts[k].text
        => /\ attempts[k].score >= 0
           /\ attempts[k].score <= 10000
           /\ attempts[k].content.striplen >= 10
              => attempts[k].score = FormulaScore(attempts[k].content)

\* The line of the hint that speaks of an issue of _evaluate_response.
RuleOf(tag) ==
    CASE tag = "hallucination_phrases" -> "no_filler"
      [] tag = "language_mismatch" -> "chinese_concise"
      [] tag = "privacy_leak" -> "no_privacy"
      [] OTHER -> "complete"

ViolatedRules(issues) == {RuleOf(issues[i].tag) : i \in 1 .. Len(issues)}

\* The score the hint of a retry states is the score of the attempt before.
DirectiveStatesPreviousScore ==
    \A k \in 2 .. Len(attempts) :
        QualityHint(attempts[k].request).score = FormatTenths(attempts[k - 1].score)

\* The rules the hint of a retry states are those the attempt before broke.
DirectiveStatesViolatedRules ==
    \A k \in 2 .. Len(attempts) :
        QualityHint(attempts[k].request).rules = ViolatedRules(attempts[k - 1].issues)

\* C35: the directive of every retry states the score of the attempt just
\* before it, to the digit the directive prints, and the rules that attempt
\* broke.
C35_DirectiveStatesPreviousAttempt ==
    DirectiveStatesPreviousScore /\ DirectiveStatesViolatedRules

\* C36: a response with no text in it is returned by the attempt that got
\* it: it is not scored, it is the last handler call and it is the value
\* returned.
C36_NoTextIsReturnedAtOnce ==
    \A k \in 1 .. Len(attempts) :
        attempts[k].no_text
        => /\ ~attempts[k].text
           /\ attempts[k].issues = <<>>
           /\ qg_pc = "returned"
           /\ returned = k
           /\ Len(attempts) = k

\* The retry after a failed text answered with tool calls only and was
\* returned with a retry left.
C36_Witness ==
    /\ qg_pc = "returned"
    /\ Len(attempts) = 2
    /\ attempts[1].text
    /\ attempts[2].no_text
    /\ returned = 2

QGIdle ==
    /\ min_score = 6000
    /\ qg_pc = "returned"
    /\ attempt = 0
    /\ best_response = None
    /\ best_score = 0
    /\ attempts = <<>>
    /\ returned = None

(***************************************************************************)
(* Agent registry: create_cross_border_agent.  A caller is modelled step   *)
(* by step, so that every interleaving of the callers is explored, also    *)
(* the ones a preemptive scheduler would add to those of one event loop.   *)
(***************************************************************************)

\* The bound on the calls of create_cross_border_agent in flight or done.
MaxCallers == 3

UserIds == {1, 2}

SessionIds == {"s1"}

\* cache_key = (user_context.user_id, session_id)
CacheKeys == UserIds \X SessionIds

Callers == 1 .. MaxCallers

IdleCaller == [pc |-> "idle", key |-> <<0, "">>, agent |-> None, result |-> None, path |-> "none"]

\* A second check that never finds the key.
NeverInCache(cache, key) == FALSE

\* lines 355 and 361: if cache_key in _agent_cache
InCache(cache, key) == cache[key] # None

RegInit ==
    /\ agent_cache = [k \in CacheKeys |-> None]
    /\ factory_lock = 0
    /\ instances = <<>>
    /\ callers = [c \in Callers |-> IdleCaller]

\* A request calls create_cross_border_agent(user_context, session_id).
RegCall(c, key) ==
    /\ UNCHANGED <<qg_vars, hitl_vars, mem_vars, fn_vars, cp_vars>>
    /\ callers[c].pc = "idle"
    /\ callers' = [callers EXCEPT ![c] = [IdleCaller EXCEPT !.pc = "check", !.key = key]]
    /\ UNCHANGED <<agent_cache, factory_lock, instances>>

\* lines 355-358: the check outside the lock.  The key holds the user id, so
\* agent.user_context.user_id == user_context.user_id is true of a hit.
RegFirstCheck(c) ==
    /\ UNCHANGED <<qg_vars, hitl_vars, mem_vars, fn_vars, cp_vars>>
    /\ callers[c].pc = "check"
    /\ IF InCache(agent_cache, callers[c].key)
       THEN callers' = [callers EXCEPT ![c].pc = "done",
                                       ![c].result = agent_cache[callers[c].key],
                                       ![c].path = "fast"]
       ELSE callers' = [callers EXCEPT ![c].pc = "acquire"]
    /\ UNCHANGED <<agent_cache, factory_lock, instances>>

\* line 360: async with _factory_lock
RegAcquire(c) ==
    /\ UNCHANGED <<qg_vars, hitl_vars, mem_vars, fn_vars, cp_vars>>
    /\ callers[c].pc = "acquire"
    /\ factory_lock = 0
    /\ factory_lock' = c
    /\ callers' = [callers EXCEPT ![c].pc = "locked"]
    /\ UNCHANGED <<agent_cache, instances>>

\* The second check under the lock.
SecondCheck(cache, key) == InCache(cache, key)

\* lines 361-362: the check under the lock; a hit returns and leaves the lock.
RegSecondCheck(c) ==
    /\ UNCHANGED <<qg_vars, hitl_vars, mem_vars, fn_vars, cp_vars>>
    /\ callers[c].pc = "locked"
    /\ factory_lock = c
    /\ IF SecondCheck(agent_cache, callers[c].key)
       THEN /\ callers' = [callers EXCEPT ![c].pc = "done",
                                          ![c].result = agent_cache[callers[c].key],
                                          ![c].path = "locked_hit"]
            /\ factory_lock' = 0
       ELSE /\ callers' = [callers EXCEPT ![c].pc = "construct"]
            /\ UNCHANGED factory_lock
    /\ UNCHANGED <<agent_cache, instances>>

\* lines 364-368: agent = CrossBorderAgent(...)
RegConstruct(c) ==
    /\ UNCHANGED <<qg_vars, hitl_vars, mem_vars, fn_vars, cp_vars>>
    /\ callers[c].pc = "construct"
    /\ instances' = Append(instances, callers[c].key)
    /\ callers' = [callers EXCEPT ![c].pc = "publish", ![c].agent = Len(instances) + 1]
    /\ UNCHANGED <<agent_cache, factory_lock>>

\* line 369: _agent_cache[cache_key] = agent
RegPublish(c) ==
    /\ UNCHANGED <<qg_vars, hitl_vars, mem_vars, fn_vars, cp_vars>>
    /\ callers[c].pc = "publish"
    /\ agent_cache' = [agent_cache EXCEPT ![callers[c].key] = callers[c].agent]
    /\ callers' = [callers EXCEPT ![c].pc = "return"]
    /\ UNCHANGED <<factory_lock, instances>>

\* line 375: return agent, leaving the lock.
RegReturn(c) ==
    /\ UNCHANGED <<qg_vars, hitl_vars, mem_vars, fn_vars, cp_vars>>
    /\ callers[c].pc = "return"
    /\ factory_lock = c
    /\ factory_lock' = 0
    /\ callers' = [callers EXCEPT ![c].pc = "done", ![c].result = callers[c].agent,
                                  ![c].path = "constructed"]
    /\ UNCHANGED <<agent_cache, instances>>

RegNext ==
    \E c \in Callers :
        \/ \E key \in CacheKeys : RegCall(c, key)
        \/ RegFirstCheck(c)
        \/ RegAcquire(c)
        \/ RegSecondCheck(c)
        \/ RegConstruct(c)
        \/ RegPublish(c)
        \/ RegReturn(c)

\* A scheduling in which a coroutine can be suspended after each of its steps.
EveryStepYields(caller) == TRUE

\* Where a coroutine of create_cross_border_agent is suspended on the event
\* loop: before it is called and after it has returned, and at line 360 when
\* the lock is held.  The function awaits nothing else: an acquire of a free
\* asyncio.Lock returns without suspending, and lines 361-375 are synchronous.
Suspended(caller) ==
    \/ caller.pc \in {"idle", "done"}
    \/ caller.pc = "acquire" /\ factory_lock # 0

\* The event loop runs one coroutine at a time, up to its next suspension.
LoopRuns(c) == \A d \in Callers \ {c} : Suspended(callers[d])

LoopCall(c, key) == LoopRuns(c) /\ RegCall(c, key)

LoopFirstCheck(c) == LoopRuns(c) /\ RegFirstCheck(c)

LoopAcquire(c) == LoopRuns(c) /\ RegAcquire(c)

LoopSecondCheck(c) == LoopRuns(c) /\ RegSecondCheck(c)

LoopConstruct(c) == LoopRuns(c) /\ RegConstruct(c)

LoopPublish(c) == LoopRuns(c) /\ RegPublish(c)

LoopReturn(c) == LoopRuns(c) /\ RegReturn(c)

\* The callers as coroutines of one event loop.
RegLoopNext ==
    \E c \in Callers :
        \/ \E key \in CacheKeys : LoopCall(c, key)
        \/ LoopFirstCheck(c)
        \/ LoopAcquire(c)
        \/ LoopSecondCheck(c)
        \/ LoopConstruct(c)
        \/ LoopPublish(c)
        \/ LoopReturn(c)

(***************************************************************************)
(* Conversation threads: the handles of the registry run their turns on    *)
(* the threads of one checkpointer.                                        *)
(***************************************************************************)

\* The bound on the turns of a thread.
MaxThreadTurns == 2

\* A thread nobody has talked in: turns are the users whose messages the
\* thread holds, pending the user whose turn is suspended (None for none),
\* read the <<reader, author>> pairs of the messages a turn was given, and
\* resumed the <<owner, resumer>> pairs of the suspended turns resumed.
NoThread == [turns |-> <<>>, pending |-> None, read |-> {}, resumed |-> {}]

\* app.main.checkpointer, handed to every CrossBorderAgent (lines 351, 367).
NoThreads == threads = [thread_id \in SessionIds |-> NoThread]

\* chat, chat_stream and resume: thread_id = thread_id or self.session_id,
\* and the router passes request.session_id, the session of the key.
ThreadIdOf(key) == key[2]

\* CrossBorderAgent.chat through the handle of key: the graph loads the
\* thread's messages, adds the inbound one and runs the turn, which ends
\* or is suspended by interrupt(); a turn pending before is dropped.
HandleChat(key, interrupts) ==
    /\ UNCHANGED <<qg_vars, reg_vars, hitl_vars, mem_vars, fn_vars>>
    /\ InCache(agent_cache, key)
    /\ LET thread_id == ThreadIdOf(key)
           thread == threads[thread_id]
       IN /\ Len(thread.turns) < MaxThreadTurns
          /\ threads' = [threads EXCEPT ![thread_id] =
                 [turns |-> Append(thread.turns, key[1]),
                  pending |-> IF interrupts THEN key[1] ELSE None,
                  read |-> thread.read \cup
                           {<<key[1], thread.turns[i]>> : i \in 1 .. Len(thread.turns)},
                  resumed |-> thread.resumed]]

\* CrossBorderAgent.resume through the handle of key, on a thread with a
\* suspended turn: the decision is given to that turn and it runs to its end.
HandleResume(key) ==
    /\ UNCHANGED <<qg_vars, reg_vars, hitl_vars, mem_vars, fn_vars>>
    /\ InCache(agent_cache, key)
    /\ LET thread_id == ThreadIdOf(key)
           thread == threads[thread_id]
       IN /\ thread.pending # None
          /\ threads' = [threads EXCEPT ![thread_id] =
                 [thread EXCEPT !.pending = None,
                                !.resumed = @ \cup {<<thread.pending, key[1]>>}]]

HandleChats == \E key \in CacheKeys, interrupts \in BOOLEAN : HandleChat(key, interrupts)

HandleResumes == \E key \in CacheKeys : HandleResume(key)

HandlesNext ==
    \/ RegLoopNext
    \/ HandleChats
    \/ HandleResumes

(***************************************************************************)
(* Agent registry: properties                                              *)
(***************************************************************************)

InstancesOf(key) == {i \in 1 .. Len(instances) : instances[i] = key}

\* C1: for one key exactly one CrossBorderAgent is constructed, and every
\* caller of that key receives that instance, in every interleaving.
C1_OneAgentPerKey ==
    /\ \A key \in CacheKeys : Cardinality(InstancesOf(key)) <= 1
    /\ \A c \in Callers :
          callers[c].pc = "done"
          => /\ InstancesOf(callers[c].key) = {callers[c].result}
             /\ agent_cache[callers[c].key] = callers[c].result

\* Two callers of one key both missed the first check; one constructed the
\* agent, the other found it under the lock, and a third took the fast path.
C1_Witness ==
    \E c, d, e \in Callers :
        /\ callers[c].pc = "done" /\ callers[d].pc = "done" /\ callers[e].pc = "done"
        /\ callers[c].key = callers[d].key /\ callers[d].key = callers[e].key
        /\ callers[c].path = "constructed"
        /\ callers[d].path = "locked_hit"
        /\ callers[e].path = "fast"
        /\ callers[c].result = callers[d].result
        /\ callers[d].result = callers[e].result

C40_KeysDoNotShareThreads ==
    \A thread_id \in SessionIds :
        LET thread == threads[thread_id]
        IN /\ \A i, j \in 1 .. Len(thread.turns) : thread.turns[i] = thread.turns[j]
           /\ \A p \in thread.read : p[1] = p[2]
           /\ \A p \in thread.resumed : p[1] = p[2]

(***************************************************************************)
(* Human-in-the-loop email confirmation.  One conversation thread: the     *)
(* thread id of every request is its session id.  interrupt() of the graph *)
(* framework raises when the tool body runs with no resume value, and the  *)
(* checkpoint then holds the pending tool call; Command(resume=decision)   *)
(* runs the tool body again from its start, where interrupt() returns the  *)
(* decision.  The checkpoint moves past the tool call only when the body   *)
(* has returned.                                                           *)
(***************************************************************************)

\* None of an Optional[str], and a key a dict does not hold.
NoneStr == "<None>"

Absent == "<absent>"

\* The tool calls the model makes: the arguments of send_email_notification.
Emails(types, ccs, orders, users) ==
    [to_email : {"buyer@x"}, subject : {"subject"}, content : {"content"},
     email_type : types, related_order_id : orders, cc_email : ccs,
     user_id : users]

AllEmails == Emails({"ORDER_CONFIRM"}, {NoneStr, "", "cc@x"}, {None, 7}, {None, 1})

CoreEmails == Emails({"GENERAL"}, {"cc@x"}, {7}, {1})

\* ResumeRequest: the body of POST /resume.
ResumeRequests(kinds, reasons, edits) ==
    [decision : kinds, reason : reasons, edited_subject : edits,
     edited_content : edits, edited_to_email : edits]

AllResumeRequests ==
    ResumeRequests({"approve", "reject", "edit", "hold"}, {NoneStr, "", "why"},
                   {NoneStr, "edited"})

CoreResumeRequests == ResumeRequests({"approve", "reject"}, {NoneStr}, {NoneStr})

Truthy(v) == v # NoneStr /\ v # ""

\* agent_router.py lines 90-98: the decision dict built from the request.
BuildDecision(request) ==
    [decision |-> request.decision,
     reason |-> IF Truthy(request.reason) THEN request.reason ELSE Absent,
     edited_subject |-> IF Truthy(request.edited_subject)
                        THEN request.edited_subject ELSE Absent,
     edited_content |-> IF Truthy(request.edited_content)
                        THEN request.edited_content ELSE Absent,
     edited_to_email |-> IF Truthy(request.edited_to_email)
                         THEN request.edited_to_email ELSE Absent]

\* The decision dicts a direct caller of CrossBorderAgent.resume passes that
\* the router never builds: no "decision" key.
DirectDecisions ==
    [decision : {Absent}, reason : {Absent, "why"}, edited_subject : {Absent, "edited"},
     edited_content : {Absent}, edited_to_email : {Absent}]

NoDecision ==
    [decision |-> Absent, reason |-> Absent, edited_subject |-> Absent,
     edited_content |-> Absent, edited_to_email |-> Absent]

\* The value interrupt() finds for the tool call: none on the first run.
NoResume == [present |-> FALSE, value |-> NoDecision]

ResumeWith(decision) == [present |-> TRUE, value |-> decision]

NoEmail ==
    [to_email |-> Absent, subject |-> Absent, content |-> Absent,
     email_type |-> Absent, cc_email |-> Absent, related_order_id |-> None]

NoPreview ==
    [interrupt_type |-> Absent, to |-> Absent, cc |-> Absent, subject |-> Absent,
     body |-> Absent, type |-> Absent, related_order_id |-> None,
     available_actions |-> <<>>]

\* request_email_confirmation lines 31-48: the payload of the interrupt.
EmailPreview(args) ==
    [interrupt_type |-> "email_confirmation", to |-> args.to_email,
     cc |-> args.cc_email, subject |-> args.subject, body |-> args.content,
     type |-> args.email_type, related_order_id |-> args.related_order_id,
     available_actions |-> <<"approve", "reject", "edit">>]

\* request_email_confirmation: interrupt(email_preview) raises (interrupted)
\* when the run has no resume value and returns the value otherwise.
RequestEmailConfirmation(args, resume) ==
    [interrupted |-> ~resume.present,
     payload |-> EmailPreview(args),
     decision |-> resume.value]

\* the default of decision.get("reason", ...) at line 95: "the user cancelled the sending"
DefaultReason == "user cancelled"

\* Python's dict.get(key, default)
Get(value, default) == IF value = Absent THEN default ELSE value

\* An else branch that sends: only a literal reject cancels.
HandleEmailDecisionSendingUnlessReject(decision, original_email) ==
    LET action == Get(decision.decision, "reject")
    IN IF action = "reject"
       THEN [action |-> "cancel", email |-> NoEmail,
             reason |-> Get(decision.reason, DefaultReason),
             original_email |-> original_email]
       ELSE [action |-> "send", email |-> original_email, reason |-> Absent,
             original_email |-> original_email]

\* An approve branch that applies the edited fields too.
HandleEmailDecisionEditingOnApprove(decision, original_email) ==
    LET action == Get(decision.decision, "reject")
        edited_email ==
            [original_email EXCEPT
                !.subject = Get(decision.edited_subject, @),
                !.content = Get(decision.edited_content, @),
                !.to_email = Get(decision.edited_to_email, @)]
    IN IF action \in {"approve", "edit"}
       THEN [action |-> "send", email |-> edited_email, reason |-> Absent,
             original_email |-> original_email]
       ELSE [action |-> "cancel", email |-> NoEmail,
             reason |-> Get(decision.reason, DefaultReason),
             original_email |-> original_email]

\* handle_email_decision: the send or cancel instruction.  original_email is
\* the caller's dict as the call leaves it: edit works on a copy.
HandleEmailDecision(decision, original_email) ==
    LET action == Get(decision.decision, "reject")
    IN IF action = "approve"
       THEN [action |-> "send", email |-> original_email, reason |-> Absent,
             original_email |-> original_email]
       ELSE IF action = "edit"
       THEN LET edited_email ==
                    [original_email EXCEPT
                        !.subject = Get(decision.edited_subject, @),
                        !.content = Get(decision.edited_content, @),
                        !.to_email = Get(decision.edited_to_email, @)]
            IN [action |-> "send", email |-> edited_email, reason |-> Absent,
                original_email |-> original_email]
       ELSE [action |-> "cancel", email |-> NoEmail,
             reason |-> Get(decision.reason, DefaultReason),
             original_email |-> original_email]

\* tools/__init__.py lines 130-137
OriginalEmail(args) ==
    [to_email |-> args.to_email, subject |-> args.subject, content |-> args.content,
     email_type |-> args.email_type, cc_email |-> args.cc_email,
     related_order_id |-> args.related_order_id]

\* tools/__init__.py lines 149-161: the arguments of sendEmailNotification.
\* A key the dict does not get is Absent (None for the two ids).
McpArguments(email, user_id) ==
    [toEmail |-> email.to_email, subject |-> email.subject,
     content |-> email.content, emailType |-> email.email_type,
     relatedOrderId |-> email.related_order_id,
     ccEmail |-> IF Truthy(email.cc_email) THEN email.cc_email ELSE Absent,
     userId |-> user_id]

NoOutcome == [kind |-> "none", reason |-> Absent, original_email |-> NoEmail]

\* A tool body that sends before it asks for the confirmation.
SendEmailNotificationUnconfirmed(args, resume) ==
    LET confirmation == RequestEmailConfirmation(args, resume)
        original_email == OriginalEmail(args)
        result == HandleEmailDecision(confirmation.decision, original_email)
        sent == <<McpArguments(original_email, args.user_id)>>
    IN IF confirmation.interrupted
       THEN [interrupted |-> TRUE, payload |-> confirmation.payload, calls |-> sent,
             outcome |-> NoOutcome]
       ELSE [interrupted |-> FALSE, payload |-> NoPreview, calls |-> <<>>,
             outcome |-> [kind |-> IF result.action = "cancel" THEN "cancelled" ELSE "sent",
                          reason |-> result.reason,
                          original_email |-> result.original_email]]

\* send_email_notification: one run of the tool body.  calls are the calls of
\* call_mcp_tool("sendEmailNotification", arguments) the run makes.
SendEmailNotification(args, resume) ==
    LET confirmation == RequestEmailConfirmation(args, resume)
        original_email == OriginalEmail(args)
        result == HandleEmailDecision(confirmation.decision, original_email)
    IN IF confirmation.interrupted
       THEN [interrupted |-> TRUE, payload |-> confirmation.payload, calls |-> <<>>,
             outcome |-> NoOutcome]
       ELSE IF result.action = "cancel"
       THEN [interrupted |-> FALSE, payload |-> NoPreview, calls |-> <<>>,
             outcome |-> [kind |-> "cancelled", reason |-> result.reason,
                          original_email |-> result.original_email]]
       ELSE [interrupted |-> FALSE, payload |-> NoPreview,
             calls |-> <<McpArguments(result.email, args.user_id)>>,
             outcome |-> [kind |-> "sent", reason |-> Absent,
                          original_email |-> result.original_email]]

\* The bound on the requests in flight at once.
MaxSlots == 2

\* The bound on the send_email_notification calls the model makes.
MaxActions == 2

\* The bounds on the chat requests and on the resume requests received.
MaxChats == 2

MaxResumes == 3

Slots == 1 .. MaxSlots

NoResponse ==
    [code |-> 0, resumed |-> FALSE, decision |-> Absent,
     requires_approval |-> FALSE, pending_action |-> NoPreview]

FreeSlot ==
    [pc |-> "free", op |-> "none", id |-> 0, decision |-> NoDecision,
     resume |-> NoResume, task |-> None, saw |-> "none", interrupt |-> None,
     outcome |-> NoOutcome, response |-> NoResponse]

HitlInit ==
    /\ ck = [status |-> "none", pending |-> None, resolved |-> {}]
    /\ actions = <<>>
    /\ mcp_calls = <<>>
    /\ reqs = [r \in Slots |-> FreeSlot]
    /\ runs = [chat |-> 0, resume |-> 0]

NextId == runs.chat + runs.resume + 1

\* POST /chat: chat_with_agent, CrossBorderAgent.chat, ainvoke(input).  The
\* new input starts a turn on the thread: a pending interrupt of the thread
\* is dropped with the tasks of the previous checkpoint.
ChatSubmit(r) ==
    /\ UNCHANGED <<qg_vars, reg_vars, mem_vars, fn_vars, cp_vars>>
    /\ reqs[r].pc = "free"
    /\ runs.chat < MaxChats
    /\ runs' = [runs EXCEPT !.chat = @ + 1]
    /\ reqs' = [reqs EXCEPT ![r] = [FreeSlot EXCEPT !.pc = "model", !.op = "chat",
                                                   !.id = NextId]]
    /\ ck' = [ck EXCEPT !.status = "clear", !.pending = None]
    /\ UNCHANGED <<actions, mcp_calls>>

\* POST /chat_streaming: chat_with_agent_streaming, CrossBorderAgent.chat_stream,
\* astream_events(input): the same turn on the thread, with its events streamed.
StreamSubmit(r) ==
    /\ UNCHANGED <<qg_vars, reg_vars, mem_vars, fn_vars, cp_vars>>
    /\ reqs[r].pc = "free"
    /\ runs.chat < MaxChats
    /\ runs' = [runs EXCEPT !.chat = @ + 1]
    /\ reqs' = [reqs EXCEPT ![r] = [FreeSlot EXCEPT !.pc = "model",
                                                   !.op = "chat_stream",
                                                   !.id = NextId]]
    /\ ck' = [ck EXCEPT !.status = "clear", !.pending = None]
    /\ UNCHANGED <<actions, mcp_calls>>

\* The model answers with text: the turn ends.
ModelAnswers(r) ==
    /\ UNCHANGED <<qg_vars, reg_vars, mem_vars, fn_vars, cp_vars>>
    /\ reqs[r].pc = "model"
    /\ reqs' = [reqs EXCEPT ![r].pc = "return"]
    /\ UNCHANGED <<ck, actions, mcp_calls, runs>>

\* The model calls send_email_notification(args).
ModelCallsTool(r, args, maxActions) ==
    /\ UNCHANGED <<qg_vars, reg_vars, mem_vars, fn_vars, cp_vars>>
    /\ reqs[r].pc = "model"
    /\ Len(actions) < maxActions
    /\ actions' = Append(actions, [args |-> args, preview |-> NoPreview,
                                   decisions |-> <<>>])
    /\ reqs' = [reqs EXCEPT ![r].pc = "tool", ![r].task = Len(actions) + 1,
                            ![r].resume = NoResume]
    /\ UNCHANGED <<ck, mcp_calls, runs>>

McpCall(a, id, resume, arguments) ==
    [tool |-> "sendEmailNotification", action |-> a, run |-> id,
     resume |-> resume, arguments |-> arguments]

\* One run of the tool body for the request's tool call: the first run, which
\* interrupt() ends (the checkpoint keeps the pending call and ainvoke
\* returns the payload), or the run of a resume, which gets the decision.
ToolRun(r) ==
    /\ UNCHANGED <<qg_vars, reg_vars, mem_vars, fn_vars, cp_vars>>
    /\ reqs[r].pc = "tool"
    /\ LET a == reqs[r].task
           run == SendEmailNotification(actions[a].args, reqs[r].resume)
       IN /\ mcp_calls' = mcp_calls \o
                 [i \in 1 .. Len(run.calls) |->
                     McpCall(a, reqs[r].id, reqs[r].resume, run.calls[i])]
          /\ IF run.interrupted
             THEN /\ ck' = [ck EXCEPT !.status = "suspended", !.pending = a]
                  /\ actions' = [actions EXCEPT ![a].preview = run.payload]
                  /\ reqs' = [reqs EXCEPT ![r].pc = "return", ![r].interrupt = a]
             ELSE /\ actions' = [actions EXCEPT
                         ![a].decisions = Append(@, reqs[r].resume.value)]
                  /\ reqs' = [reqs EXCEPT ![r].pc = "commit",
                                          ![r].outcome = run.outcome]
                  /\ UNCHANGED ck
    /\ UNCHANGED runs

\* POST /resume: resume_interrupted_agent builds the decision and calls
\* CrossBorderAgent.resume.
ResumeSubmit(r, request, maxResumes) ==
    /\ UNCHANGED <<qg_vars, reg_vars, mem_vars, fn_vars, cp_vars>>
    /\ reqs[r].pc = "free"
    /\ runs.resume < maxResumes
    /\ runs' = [runs EXCEPT !.resume = @ + 1]
    /\ reqs' = [reqs EXCEPT ![r] = [FreeSlot EXCEPT !.pc = "load", !.op = "resume",
                                                   !.id = NextId,
                                                   !.decision = BuildDecision(request)]]
    /\ UNCHANGED <<ck, actions, mcp_calls>>

\* CrossBorderAgent.resume(decision) called with a dict of the caller's own.
ResumeDirect(r, decision, maxResumes) ==
    /\ UNCHANGED <<qg_vars, reg_vars, mem_vars, fn_vars, cp_vars>>
    /\ reqs[r].pc = "free"
    /\ runs.resume < maxResumes
    /\ runs' = [runs EXCEPT !.resume = @ + 1]
    /\ reqs' = [reqs EXCEPT ![r] = [FreeSlot EXCEPT !.pc = "load",
                                                   !.op = "resume_direct",
                                                   !.id = NextId,
                                                   !.decision = decision]]
    /\ UNCHANGED <<ck, actions, mcp_calls>>

\* ainvoke(Command(resume=decision)) reads the checkpoint and finds the
\* pending tool call: the tool body is run again with the decision.
ResumeLoadPending(r) ==
    /\ UNCHANGED <<qg_vars, reg_vars, mem_vars, fn_vars, cp_vars>>
    /\ reqs[r].pc = "load"
    /\ ck.status = "suspended"
    /\ reqs' = [reqs EXCEPT ![r].pc = "tool", ![r].task = ck.pending,
                            ![r].resume = ResumeWith(reqs[r].decision),
                            ![r].saw = "pending"]
    /\ UNCHANGED <<ck, actions, mcp_calls, runs>>

\* ainvoke(Command(resume=decision)) reads a checkpoint with no pending
\* interrupt: nothing is run and ainvoke returns the thread's state.
ResumeLoadNothing(r) ==
    /\ UNCHANGED <<qg_vars, reg_vars, mem_vars, fn_vars, cp_vars>>
    /\ reqs[r].pc = "load"
    /\ ck.status = "clear"
    /\ reqs' = [reqs EXCEPT ![r].pc = "return",
                            ![r].saw = IF ck.resolved = {} THEN "nothing"
                                       ELSE "resolved"]
    /\ UNCHANGED <<ck, actions, mcp_calls, runs>>

\* ainvoke(Command(resume=decision)) on a thread with no checkpoint raises;
\* resume re-raises (line 328) and the router answers 500 (lines 116-121).
ResumeLoadNoThread(r) ==
    /\ UNCHANGED <<qg_vars, reg_vars, mem_vars, fn_vars, cp_vars>>
    /\ reqs[r].pc = "load"
    /\ ck.status = "none"
    /\ reqs' = [reqs EXCEPT ![r].pc = "responded", ![r].saw = "no_thread",
                            ![r].response = [NoResponse EXCEPT !.code = 500]]
    /\ UNCHANGED <<ck, actions, mcp_calls, runs>>

\* The tool body has returned: its result is written and the checkpoint
\* moves past the tool call; the model is called with the result.
Commit(r) ==
    /\ UNCHANGED <<qg_vars, reg_vars, mem_vars, fn_vars, cp_vars>>
    /\ reqs[r].pc = "commit"
    /\ ck' = [status |-> "clear", pending |-> None,
              resolved |-> ck.resolved \cup {reqs[r].task}]
    /\ reqs' = [reqs EXCEPT ![r].pc = "model"]
    /\ UNCHANGED <<actions, mcp_calls, runs>>

\* orchestrator.py lines 186-196 and agent_router.py lines 26-36
ChatResponse(req) ==
    [code |-> 200, resumed |-> FALSE, decision |-> Absent,
     requires_approval |-> req.interrupt # None,
     pending_action |-> IF req.interrupt # None
                        THEN actions[req.interrupt].preview ELSE NoPreview]

\* orchestrator.py lines 275-281: when the events end chat_stream yields the
\* done event, which has the text, the session id and the thread id; the
\* events it relays before are tokens, tool_start and tool_end.
StreamResponse(req) ==
    [code |-> 200, resumed |-> FALSE, decision |-> Absent,
     requires_approval |-> FALSE, pending_action |-> NoPreview]

\* orchestrator.py lines 318-324 and agent_router.py lines 105-114
ResumeResponse(req) ==
    [code |-> 200, resumed |-> TRUE,
     decision |-> Get(req.decision.decision, "unknown"),
     requires_approval |-> FALSE, pending_action |-> NoPreview]

\* ainvoke has returned: the response goes to the caller.
Return(r) ==
    /\ UNCHANGED <<qg_vars, reg_vars, mem_vars, fn_vars, cp_vars>>
    /\ reqs[r].pc = "return"
    /\ reqs' = [reqs EXCEPT ![r].pc = "responded",
                            ![r].response = IF reqs[r].op = "chat"
                                            THEN ChatResponse(reqs[r])
                                            ELSE IF reqs[r].op = "chat_stream"
                                            THEN StreamResponse(reqs[r])
                                            ELSE ResumeResponse(reqs[r])]
    /\ UNCHANGED <<ck, actions, mcp_calls, runs>>

\* The request is over.
Done(r) ==
    /\ UNCHANGED <<qg_vars, reg_vars, mem_vars, fn_vars, cp_vars>>
    /\ reqs[r].pc = "responded"
    /\ reqs' = [reqs EXCEPT ![r] = FreeSlot]
    /\ UNCHANGED <<ck, actions, mcp_calls, runs>>

\* The requests of one thread, in every interleaving.
HitlNext ==
    \E r \in Slots :
        \/ ChatSubmit(r)
        \/ StreamSubmit(r)
        \/ ModelAnswers(r)
        \/ \E args \in CoreEmails : ModelCallsTool(r, args, MaxActions)
        \/ ToolRun(r)
        \/ \E request \in CoreResumeRequests : ResumeSubmit(r, request, MaxResumes)
        \/ ResumeDirect(r, NoDecision, MaxResumes)
        \/ ResumeLoadPending(r)
        \/ ResumeLoadNothing(r)
        \/ ResumeLoadNoThread(r)
        \/ Commit(r)
        \/ Return(r)
        \/ Done(r)

\* One email action, one decision and one request at a time, for every tool
\* call and every decision.
DecisionNext ==
    \/ ChatSubmit(1)
    \/ ModelAnswers(1)
    \/ \E args \in AllEmails : ModelCallsTool(1, args, 1)
    \/ ToolRun(1)
    \/ \E request \in AllResumeRequests : ResumeSubmit(1, request, 1)
    \/ \E decision \in DirectDecisions : ResumeDirect(1, decision, 1)
    \/ ResumeLoadPending(1)
    \/ ResumeLoadNothing(1)
    \/ ResumeLoadNoThread(1)
    \/ Commit(1)
    \/ Return(1)
    \/ Done(1)

(***************************************************************************)
(* Email confirmation: properties                                          *)
(***************************************************************************)

ActionIds == 1 .. Len(actions)

\* The sendEmailNotification calls made for action a, and by request id.
CallsOf(a) == {i \in 1 .. Len(mcp_calls) : mcp_calls[i].action = a}

CallsBy(id) == {i \in 1 .. Len(mcp_calls) : mcp_calls[i].run = id}

\* RUNNING until the interrupt payload is out, SUSPENDED until a run of the
\* tool body has received a decision.
ActionState(a) ==
    IF Len(actions[a].decisions) = 0
    THEN IF actions[a].preview = NoPreview THEN "RUNNING" ELSE "SUSPENDED"
    ELSE IF CallsOf(a) # {} THEN "SENT"
    ELSE "CANCELLED"

\* C2: once a suspended email action has been resolved, a decision submitted
\* again for the session performs no send and is answered with an error,
\* not with a success response.
C2_ResubmissionIsAnError ==
    \A r \in Slots :
        (reqs[r].pc = "responded" /\ reqs[r].op # "chat" /\ reqs[r].saw = "resolved")
        => (CallsBy(reqs[r].id) = {} /\ reqs[r].response.code # 200)

\* C3: with resume requests for one suspended point in flight together, the
\* send is performed at most once and only one submission gets through to
\* the tool body.
C3_OneResumptionPerSuspension ==
    \A a \in ActionIds :
        /\ Cardinality(CallsOf(a)) <= 1
        /\ Len(actions[a].decisions) <= 1

\* C4: sendEmailNotification is called only by a run of the tool body that
\* received a decision, after the decision request of the action was
\* emitted: no call exists for an action that is RUNNING or SUSPENDED.
C4_NoSendBeforeDecision ==
    /\ \A i \in 1 .. Len(mcp_calls) :
          /\ mcp_calls[i].resume.present
          /\ actions[mcp_calls[i].action].preview # NoPreview
    /\ \A a \in ActionIds :
          ActionState(a) \in {"RUNNING", "SUSPENDED"} => CallsOf(a) = {}

\* The tool body was run again from its start for a resume and sent the
\* email of a suspended action.
C4_Witness ==
    \E i \in 1 .. Len(mcp_calls) :
        /\ mcp_calls[i].resume.present
        /\ mcp_calls[i].resume.value.decision = "approve"
        /\ actions[mcp_calls[i].action].preview.interrupt_type = "email_confirmation"
        /\ ActionState(mcp_calls[i].action) = "SENT"

\* C5: a decision whose kind is reject, missing or anything but approve and
\* edit cancels: the run makes no sendEmailNotification call and the reason
\* is the decision's reason, or the default reason when it has none.
C5_OtherDecisionsCancel ==
    /\ \A i \in 1 .. Len(mcp_calls) :
          mcp_calls[i].resume.value.decision \in {"approve", "edit"}
    /\ \A r \in Slots :
          (reqs[r].outcome.kind # "none"
           /\ reqs[r].decision.decision \notin {"approve", "edit"})
          => /\ reqs[r].outcome.kind = "cancelled"
             /\ CallsBy(reqs[r].id) = {}
             /\ CallsOf(reqs[r].task) = {}
             /\ reqs[r].outcome.reason =
                    IF reqs[r].decision.reason = Absent THEN DefaultReason
                    ELSE reqs[r].decision.reason

\* An unrecognized decision value without a reason cancelled the action with
\* the default reason.
C5_Witness ==
    \E r \in Slots :
        /\ reqs[r].decision.decision = "hold"
        /\ reqs[r].decision.reason = Absent
        /\ reqs[r].outcome.kind = "cancelled"
        /\ reqs[r].outcome.reason = DefaultReason
        /\ ActionState(reqs[r].task) = "CANCELLED"

\* C6: approve sends the original parameters; edit sends them with only the
\* recipient, subject and body the decision supplies replaced; type, cc and
\* related order id are the original's, and the original record is as it was.
C6_SendUsesOriginalParameters ==
    /\ \A i \in 1 .. Len(mcp_calls) :
          LET sent == mcp_calls[i].arguments
              orig == actions[mcp_calls[i].action].args
              d == mcp_calls[i].resume.value
          IN /\ sent.emailType = orig.email_type
             /\ sent.relatedOrderId = orig.related_order_id
             /\ sent.ccEmail = IF orig.cc_email \in {NoneStr, ""} THEN Absent
                               ELSE orig.cc_email
             /\ sent.userId = orig.user_id
             /\ d.decision = "approve"
                => /\ sent.toEmail = orig.to_email
                   /\ sent.subject = orig.subject
                   /\ sent.content = orig.content
             /\ d.decision = "edit"
                => /\ sent.toEmail = IF d.edited_to_email = Absent THEN orig.to_email
                                     ELSE d.edited_to_email
                   /\ sent.subject = IF d.edited_subject = Absent THEN orig.subject
                                     ELSE d.edited_subject
                   /\ sent.content = IF d.edited_content = Absent THEN orig.content
                                     ELSE d.edited_content
    /\ \A r \in Slots :
          reqs[r].outcome.kind # "none"
          => LET orig == actions[reqs[r].task].args
                 kept == reqs[r].outcome.original_email
             IN /\ kept.to_email = orig.to_email
                /\ kept.subject = orig.subject
                /\ kept.content = orig.content
                /\ kept.email_type = orig.email_type
                /\ kept.cc_email = orig.cc_email
                /\ kept.related_order_id = orig.related_order_id

\* An edit that supplies a subject only sent the email with that subject and
\* the original body and recipient, and an approve that carries an edited
\* subject would be a different decision.
C6_Witness ==
    \E i \in 1 .. Len(mcp_calls) :
        LET sent == mcp_calls[i].arguments
            orig == actions[mcp_calls[i].action].args
            d == mcp_calls[i].resume.value
        IN /\ d.decision = "edit"
           /\ d.edited_subject = "edited"
           /\ d.edited_content = Absent
           /\ sent.subject = "edited"
           /\ sent.content = orig.content
           /\ orig.cc_email = "cc@x"
           /\ sent.ccEmail = "cc@x"

\* C23: while a turn of the session is suspended for a decision, a new
\* inbound turn of the session is rejected or queued: no request gets to the
\* model call, and the suspension stays, until the suspension is resolved.
C23_NoTurnWhileSuspended ==
    [][ck.status = "suspended"
       => /\ \A r \in Slots : reqs[r].pc = "free" => reqs'[r].pc # "model"
          /\ ck'.status = "clear" => \E r \in Slots : reqs[r].pc = "commit"]_vars

\* A request of one of the two turn entry points.
IsTurn(req) == req.op \in {"chat", "chat_stream"}

\* C24: every turn that ends suspended answers its caller with an
\* awaiting-decision payload that has the preview of the action and the
\* decision options approve, reject and edit, for chat and for chat_stream.
C24_SuspendedTurnReturnsDecisionRequest ==
    \A r \in Slots :
        (reqs[r].pc = "responded" /\ IsTurn(reqs[r]) /\ reqs[r].interrupt # None)
        => /\ reqs[r].response.requires_approval
           /\ reqs[r].response.pending_action = actions[reqs[r].interrupt].preview
           /\ reqs[r].response.pending_action.available_actions
                  = <<"approve", "reject", "edit">>

\* C25: a resume call that resumed a suspended action returns with the
\* action SENT or CANCELLED and its response says which, and when the
\* continued execution was suspended again at another email action the
\* response reports that pending decision.
C25_ResumeReportsOutcome ==
    \A r \in Slots :
        (reqs[r].pc = "responded" /\ ~IsTurn(reqs[r]) /\ reqs[r].saw = "pending")
        => /\ ActionState(reqs[r].task) \in {"SENT", "CANCELLED"}
           /\ reqs[r].response.decision \in {"approve", "edit"}
                  <=> ActionState(reqs[r].task) = "SENT"
           /\ reqs[r].interrupt # None
                  => /\ reqs[r].response.requires_approval
                     /\ reqs[r].response.pending_action
                            = actions[reqs[r].interrupt].preview

\* C26: a decision submitted for a session with no suspended execution point
\* (a thread that was never suspended, or an unknown thread) is rejected with
\* a failure that reaches the caller: no call is made for it and it is not
\* answered with a success response.
C26_NoTargetIsRejected ==
    \A r \in Slots :
        (reqs[r].pc = "responded" /\ ~IsTurn(reqs[r])
         /\ reqs[r].saw \in {"nothing", "no_thread"})
        => /\ CallsBy(reqs[r].id) = {}
           /\ reqs[r].response.code # 200
           /\ ~reqs[r].response.resumed

(***************************************************************************)
(* Memory: MemoryMiddleware and PersistenceMiddleware over the messages of *)
(* one session.  A message is its id, its kind and the length of its text; *)
(* the kinds "human" and "summary" are HumanMessage objects, "ai" is an     *)
(* AIMessage with text, "ai_call" an AIMessage with tool calls, "tool" a    *)
(* ToolMessage.  The rows of a table are kept in the order they were        *)
(* committed, which is the order of their id and of created_at.            *)
(***************************************************************************)

messages_to_keep == 4

max_messages_trigger == 10

max_tokens_trigger == 4000

\* The bound on the messages of the session: no turn begins and no tool is
\* called once generate_id has given out this many ids.
MaxMessages == 12

\* The same bound for the turns that try every behaviour of the Relevance
\* Index.
MaxRetrievalMessages == 6

\* The message ids of the sessions whose persistence threads run at any time.
MaxPersistMessages == 8

\* The numbers of tool calls an AIMessage of the model carries.
ToolCallCounts == {1, 3}

\* len(content) of the inbound messages: empty, "hello", and a text of
\* 12000 characters, which alone reaches max_tokens_trigger.
InboundChars == {0, 5, 12000}

\* len(content) of the model's answers, the tool results and the summaries.
ReplyChars == 30

Message(id, kind, chars) == [id |-> id, kind |-> kind, chars |-> chars]

IsHumanMessage(m) == m.kind \in {"human", "summary"}

IsToolMessage(m) == m.kind = "tool"

\* messages[i] of Python, i from -len(messages) to len(messages) - 1.
PyIndex(messages, i) ==
    IF i >= 0 THEN messages[i + 1] ELSE messages[Len(messages) + i + 1]

\* The first index of the slices messages[i:] and messages[:i] of Python.
PySliceStart(messages, i) ==
    IF i >= 0 THEN Min(i, Len(messages))
    ELSE IF Len(messages) + i < 0 THEN 0 ELSE Len(messages) + i

PySliceFrom(messages, i) ==
    SubSeq(messages, PySliceStart(messages, i) + 1, Len(messages))

PySliceTo(messages, i) == SubSeq(messages, 1, PySliceStart(messages, i))

\* extract_user_query: the text of the latest HumanMessage, None without one.
RECURSIVE ExtractUserQuery(_)
ExtractUserQuery(messages) ==
    IF messages = <<>> THEN [none |-> TRUE, chars |-> 0]
    ELSE IF IsHumanMessage(messages[Len(messages)])
         THEN [none |-> FALSE, chars |-> messages[Len(messages)].chars]
         ELSE ExtractUserQuery(SubSeq(messages, 1, Len(messages) - 1))

RECURSIVE TokenCount(_)
TokenCount(messages) ==
    IF messages = <<>> THEN 0
    ELSE (messages[1].chars \div 3) + TokenCount(Tail(messages))

\* _should_summarize
ShouldSummarize(messages) ==
    \/ Len(messages) >= max_messages_trigger
    \/ TokenCount(messages) >= max_tokens_trigger

\* A split that stays at the nominal index.
KeepNominalSplit(messages, split_idx) == [idx |-> split_idx, error |-> FALSE]

\* A split that steps back over one ToolMessage: an if for the while.
BackOverOneToolMessage(messages, split_idx) ==
    IF split_idx < Len(messages) /\ IsToolMessage(PyIndex(messages, split_idx))
    THEN [idx |-> split_idx - 1, error |-> FALSE]
    ELSE [idx |-> split_idx, error |-> FALSE]

\* lines 263-264: while split_idx < len(messages) and
\* isinstance(messages[split_idx], ToolMessage): split_idx -= 1.  An index
\* below -len(messages) raises IndexError.
RECURSIVE BackOverToolMessages(_, _)
BackOverToolMessages(messages, split_idx) ==
    IF split_idx < 0 - Len(messages) THEN [idx |-> split_idx, error |-> TRUE]
    ELSE IF split_idx < Len(messages) /\ IsToolMessage(PyIndex(messages, split_idx))
         THEN BackOverToolMessages(messages, split_idx - 1)
         ELSE [idx |-> split_idx, error |-> FALSE]

\* _split_messages: the messages to keep and the messages to summarize.
SplitMessages(messages) ==
    IF Len(messages) <= messages_to_keep
    THEN [keep |-> messages, summarize |-> <<>>, error |-> FALSE, split_idx |-> 0]
    ELSE LET split == BackOverToolMessages(messages, Len(messages) - messages_to_keep)
         IN IF split.error
            THEN [keep |-> <<>>, summarize |-> <<>>, error |-> TRUE,
                  split_idx |-> split.idx]
            ELSE [keep |-> PySliceFrom(messages, split.idx),
                  summarize |-> PySliceTo(messages, split.idx),
                  error |-> FALSE, split_idx |-> split.idx]

\* A row of chat_messages: save_message.
Row(id, msg_id, role, chars) == [id |-> id, msg_id |-> msg_id, role |-> role, chars |-> chars]

RECURSIVE Reverse(_)
Reverse(s) == IF s = <<>> THEN <<>> ELSE Append(Reverse(Tail(s)), Head(s))

\* A query for the rows of the session that takes the latest ones.
GetLatestMessagesBySession(rows, limit, order_desc) ==
    IF limit # 0
    THEN SubSeq(rows, Len(rows) - Min(limit, Len(rows)) + 1, Len(rows))
    ELSE rows

\* get_messages_by_session: ORDER BY created_at, then LIMIT.
GetMessagesBySession(rows, limit, order_desc) ==
    LET ordered == IF order_desc THEN Reverse(rows) ELSE rows
    IN IF limit # 0 THEN SubSeq(ordered, 1, Min(limit, Len(ordered))) ELSE ordered

\* A row of chat_message_summaries; msg_ids are the ids of the messages the
\* summary was generated from (line 301), of which the row keeps the first
\* and the last.
NoSummary ==
    [summary_id |-> None, mes_id_start |-> None, mes_id_end |-> None,
     msg_ids |-> {}]

\* get_latest_summary: ORDER BY created_at DESC, first().
GetLatestSummary(summaries) ==
    IF summaries = <<>> THEN NoSummary ELSE summaries[Len(summaries)]

IsAfter(row, end_row) == row.id > end_row.id

\* get_messages_after_summary
GetMessagesAfterSummary(rows, end_msg_id) ==
    IF \A i \in 1 .. Len(rows) : rows[i].msg_id # end_msg_id
    THEN <<>>
    ELSE LET end_msg == rows[CHOOSE i \in 1 .. Len(rows) :
                                /\ rows[i].msg_id = end_msg_id
                                /\ \A j \in 1 .. i - 1 : rows[j].msg_id # end_msg_id]
             After(row) == IsAfter(row, end_msg)
         IN SelectSeq(rows, After)

\* _convert_db_message: kind "none" is None.
ConvertDbMessage(db_msg) ==
    IF db_msg.role = "" \/ db_msg.chars = 0 THEN Message(None, "none", 0)
    ELSE IF db_msg.role = "human" THEN Message(db_msg.msg_id, "human", db_msg.chars)
    ELSE IF db_msg.role = "ai" THEN Message(db_msg.msg_id, "ai", db_msg.chars)
    ELSE Message(None, "none", 0)

RECURSIVE ConvertRows(_)
ConvertRows(rows) ==
    IF rows = <<>> THEN <<>>
    ELSE LET msg == ConvertDbMessage(rows[1])
         IN (IF msg.kind = "none" THEN <<>> ELSE <<msg>>) \o ConvertRows(Tail(rows))

\* _recover_history; db_fails is an exception of the storage service.
RecoverHistory(rows, summaries, db_fails) ==
    IF db_fails THEN <<>>
    ELSE LET latest_summary == GetLatestSummary(summaries)
         IN IF latest_summary # NoSummary
            THEN <<Message(latest_summary.summary_id, "summary", ReplyChars)>>
                 \o ConvertRows(GetMessagesAfterSummary(rows, latest_summary.mes_id_end))
            ELSE ConvertRows(GetMessagesBySession(rows, messages_to_keep, FALSE))

NoUpdates == [set |-> FALSE, messages |-> <<>>, ran |-> FALSE, summary |-> NoSummary]

NoRetrieval == [path |-> "none", task |-> "none", results |-> 0, timed_out |-> FALSE]

\* What before_model did: summary is the outcome of _generate_summary when
\* it was called.
NoCompaction ==
    [done |-> FALSE, before |-> <<>>, split_idx |-> 0, summary |-> "not_called"]

NewTurn ==
    [turns |-> 0, model_calls |-> 0, inbound |-> Message(None, "none", 0),
     model_failed |-> FALSE]

\* The state of a session nobody has talked in; context is whether the
\* runtime hands the hooks a context.
MemInit ==
    /\ context \in BOOLEAN
    /\ buffer = <<>>
    /\ db_messages = <<>>
    /\ db_summaries = <<>>
    /\ persist_tasks = {}
    /\ mem_pc = "idle"
    /\ updates = NoUpdates
    /\ retrieval = NoRetrieval
    /\ retrieved = 0
    /\ mem_ids = 1
    /\ turn = NewTurn
    /\ compacted = NoCompaction

\* The update joins the messages of the state instead of replacing them.
AddedToMessages(messages, u) == messages \o u.messages

\* The context an operation of CrossBorderAgent hands the graph: chat calls
\* ainvoke(input, config), chat_stream astream_events(input, config,
\* version), resume ainvoke(input, config); none passes context=, and
\* self.runtime_context (line 103) is read nowhere.
AgentOperations == {"chat", "chat_stream", "resume"}

Supplies(op) == op \notin AgentOperations

\* The state of a session whose turns come through op.
InvokedBy(op) == MemInit /\ context = Supplies(op)

\* The messages before_agent leaves in the state: its update replaces them all.
AfterBeforeAgent(messages, u) == IF u.set THEN u.messages ELSE messages

\* A turn begins: the inbound HumanMessage joins the messages of the thread's
\* checkpoint, which are none on a fresh execution.
TurnStart(fresh, chars, max_messages) ==
    /\ UNCHANGED <<qg_vars, reg_vars, hitl_vars, fn_vars, cp_vars>>
    /\ mem_pc = "idle"
    /\ mem_ids <= max_messages
    /\ LET inbound == Message(mem_ids, "human", chars)
       IN /\ buffer' = IF fresh THEN <<inbound>> ELSE Append(buffer, inbound)
          /\ turn' = [turns |-> turn.turns + 1, model_calls |-> 0,
                      inbound |-> inbound, model_failed |-> FALSE]
    /\ mem_ids' = mem_ids + 1
    /\ mem_pc' = "before_agent"
    /\ updates' = NoUpdates
    /\ retrieval' = NoRetrieval
    /\ compacted' = NoCompaction
    /\ UNCHANGED <<context, db_messages, db_summaries, persist_tasks, retrieved>>

\* MemoryMiddleware.before_agent up to the call of _retrieve_context, and to
\* its return when no retrieval is made.
BeforeAgentRecover(db_fails) ==
    /\ UNCHANGED <<qg_vars, reg_vars, hitl_vars, fn_vars, cp_vars>>
    /\ mem_pc = "before_agent"
    /\ db_fails => (context /\ Len(buffer) <= 1)
    /\ IF ~context
       THEN /\ mem_pc' = "persist_human"
            /\ UNCHANGED <<buffer, updates>>
       ELSE LET messages == buffer
                recover == Len(messages) <= 1
                recovered == IF recover
                             THEN RecoverHistory(db_messages, db_summaries, db_fails)
                             ELSE <<>>
                current_msg == messages[Len(messages)]
                final_messages ==
                    recovered \o (IF IsHumanMessage(current_msg)
                                  THEN <<current_msg>> ELSE <<>>)
                u == [set |-> recovered # <<>>,
                      messages |-> IF recovered # <<>> THEN final_messages ELSE <<>>,
                      ran |-> recover /\ ~db_fails,
                      summary |-> IF recover /\ ~db_fails
                                  THEN GetLatestSummary(db_summaries)
                                  ELSE NoSummary]
                query == ExtractUserQuery(messages)
            IN /\ updates' = u
               /\ IF ~query.none /\ query.chars >= 5
                  THEN mem_pc' = "retrieve" /\ UNCHANGED buffer
                  ELSE /\ mem_pc' = "persist_human"
                       /\ buffer' = AfterBeforeAgent(buffer, u)
    /\ UNCHANGED <<context, db_messages, db_summaries, persist_tasks, retrieval,
                   retrieved, mem_ids, turn, compacted>>

\* _retrieve_context starts the retrieval: with a running event loop in a
\* thread of a pool (lines 208-215), without one in a new loop (199-206).
RetrieveStart(loop_running) ==
    /\ UNCHANGED <<qg_vars, reg_vars, hitl_vars, fn_vars, cp_vars>>
    /\ mem_pc = "retrieve"
    /\ mem_pc' = "waiting"
    /\ retrieval' = [path |-> IF loop_running THEN "pool" ELSE "loop",
                     task |-> "running", results |-> 0, timed_out |-> FALSE]
    /\ UNCHANGED <<context, buffer, db_messages, db_summaries, persist_tasks,
                   updates, retrieved, mem_ids, turn, compacted>>

\* _retrieve_async returns n summaries.
IndexAnswers(n) ==
    /\ UNCHANGED <<qg_vars, reg_vars, hitl_vars, fn_vars, cp_vars>>
    /\ retrieval.task = "running"
    /\ retrieval' = [retrieval EXCEPT !.task = "done", !.results = n]
    /\ UNCHANGED <<context, buffer, db_messages, db_summaries, persist_tasks,
                   mem_pc, updates, retrieved, mem_ids, turn, compacted>>

\* hybrid_search raises.
IndexRaises ==
    /\ UNCHANGED <<qg_vars, reg_vars, hitl_vars, fn_vars, cp_vars>>
    /\ retrieval.task = "running"
    /\ retrieval' = [retrieval EXCEPT !.task = "raised"]
    /\ UNCHANGED <<context, buffer, db_messages, db_summaries, persist_tasks,
                   mem_pc, updates, retrieved, mem_ids, turn, compacted>>

\* line 215: future.result(timeout=10.0) raises TimeoutError; the with
\* statement then waits for the pool to shut down.
RetrieveTimeout ==
    /\ UNCHANGED <<qg_vars, reg_vars, hitl_vars, fn_vars, cp_vars>>
    /\ mem_pc = "waiting"
    /\ retrieval.path = "pool"
    /\ retrieval.task = "running"
    /\ ~retrieval.timed_out
    /\ retrieval' = [retrieval EXCEPT !.timed_out = TRUE]
    /\ UNCHANGED <<context, buffer, db_messages, db_summaries, persist_tasks,
                   mem_pc, updates, retrieved, mem_ids, turn, compacted>>

\* _retrieve_context returns the summaries and before_agent returns its updates.
RetrieveReturn ==
    /\ UNCHANGED <<qg_vars, reg_vars, hitl_vars, fn_vars, cp_vars>>
    /\ mem_pc = "waiting"
    /\ retrieval.task = "done"
    /\ ~retrieval.timed_out
    /\ retrieved' = IF retrieval.results > 0 THEN retrieval.results ELSE retrieved
    /\ buffer' = AfterBeforeAgent(buffer, updates)
    /\ mem_pc' = "persist_human"
    /\ UNCHANGED <<context, db_messages, db_summaries, persist_tasks, updates,
                   retrieval, mem_ids, turn, compacted>>

\* _retrieve_context raises, and before_agent with it: the exception of the
\* search, or the TimeoutError once the task has ended.
RetrieveRaise ==
    /\ UNCHANGED <<qg_vars, reg_vars, hitl_vars, fn_vars, cp_vars>>
    /\ mem_pc = "waiting"
    /\ \/ retrieval.task = "raised"
       \/ retrieval.timed_out /\ retrieval.task = "done"
    /\ mem_pc' = "failed"
    /\ UNCHANGED <<context, buffer, db_messages, db_summaries, persist_tasks,
                   updates, retrieval, retrieved, mem_ids, turn, compacted>>

\* chat re-raises and the router answers 500.
TurnFailed ==
    /\ UNCHANGED <<qg_vars, reg_vars, hitl_vars, fn_vars, cp_vars>>
    /\ mem_pc = "failed"
    /\ mem_pc' = "idle"
    /\ UNCHANGED <<context, buffer, db_messages, db_summaries, persist_tasks,
                   updates, retrieval, retrieved, mem_ids, turn, compacted>>

SaveMessage(rows, msg, role) ==
    Append(rows, Row(Len(rows) + 1, msg.id, role, msg.chars))

\* PersistenceMiddleware.before_agent
PersistHuman ==
    /\ UNCHANGED <<qg_vars, reg_vars, hitl_vars, fn_vars, cp_vars>>
    /\ mem_pc = "persist_human"
    /\ LET last_msg == buffer[Len(buffer)]
       IN db_messages' = IF context /\ IsHumanMessage(last_msg)
                         THEN SaveMessage(db_messages, last_msg, "human")
                         ELSE db_messages
    /\ mem_pc' = "before_model"
    /\ UNCHANGED <<context, buffer, db_summaries, persist_tasks, updates,
                   retrieval, retrieved, mem_ids, turn, compacted>>

\* Whether before_model gets as far as _generate_summary.
Summarizes(messages) ==
    /\ ShouldSummarize(messages)
    /\ context
    /\ ~SplitMessages(messages).error
    /\ SplitMessages(messages).summarize # <<>>

\* What the summary model does with the prompt: it answers with a text, with
\* an empty or blank text, or it raises.
SummaryOutcomes == {"text", "empty", "raises"}

\* _generate_summary: response.content.strip(), and None when the call raises.
GenerateSummary(outcome) ==
    [none |-> outcome = "raises",
     chars |-> IF outcome = "text" THEN ReplyChars ELSE 0]

AnySummaryContent(summary_content) == ~summary_content.none

\* line 113: if not summary_content: return None
HasSummaryContent(summary_content) ==
    ~summary_content.none /\ summary_content.chars > 0

\* A row tagged with the ids of the first and of the second message.
SummaryRowOfFirstTwo(summary_id, messages) ==
    [summary_id |-> summary_id,
     mes_id_start |-> messages[1].id,
     mes_id_end |-> messages[Min(2, Len(messages))].id,
     msg_ids |-> {messages[i].id : i \in 1 .. Len(messages)}]

\* _do_persist lines 301-310: msg_ids of the summarized messages, the row has
\* msg_ids[0] and msg_ids[-1].
SummaryRow(summary_id, messages) ==
    [summary_id |-> summary_id,
     mes_id_start |-> messages[1].id,
     mes_id_end |-> messages[Len(messages)].id,
     msg_ids |-> {messages[i].id : i \in 1 .. Len(messages)}]

\* The caller runs the task itself and returns when it has ended.
RunInline(tasks, row) == tasks

\* line 325: _executor.submit(_do_persist) queues the task and returns.
Submit(tasks, row) == tasks \cup {row}

\* MemoryMiddleware.before_model; outcome is what the summary model does
\* when _generate_summary calls it.
BeforeModel(outcome) ==
    /\ UNCHANGED <<qg_vars, reg_vars, hitl_vars, fn_vars, cp_vars>>
    /\ mem_pc = "before_model"
    /\ outcome # "text" => Summarizes(buffer)
    /\ IF Summarizes(buffer) /\ HasSummaryContent(GenerateSummary(outcome))
       THEN LET split == SplitMessages(buffer)
                summary_id == mem_ids
                summary_msg == Message(summary_id, "summary", ReplyChars)
            IN /\ persist_tasks' = Submit(persist_tasks,
                                          SummaryRow(summary_id, split.summarize))
               /\ buffer' = <<summary_msg>> \o split.keep
               /\ compacted' = [done |-> TRUE, before |-> buffer,
                                split_idx |-> split.split_idx,
                                summary |-> outcome]
               /\ mem_ids' = mem_ids + 1
       ELSE /\ compacted' = IF Summarizes(buffer)
                            THEN [NoCompaction EXCEPT !.summary = outcome]
                            ELSE NoCompaction
            /\ UNCHANGED <<persist_tasks, buffer, mem_ids>>
    /\ mem_pc' = "model"
    /\ UNCHANGED <<context, db_messages, db_summaries, updates, retrieval,
                   retrieved, turn>>

RECURSIVE ToolMessages(_, _)
ToolMessages(first_id, n) ==
    IF n = 0 THEN <<>>
    ELSE <<Message(first_id, "tool", ReplyChars)>> \o ToolMessages(first_id + 1, n - 1)

\* The model answers with a text: the last message of the turn.
ModelAnswersText ==
    /\ UNCHANGED <<qg_vars, reg_vars, hitl_vars, fn_vars, cp_vars>>
    /\ mem_pc = "model"
    /\ buffer' = Append(buffer, Message(mem_ids, "ai", ReplyChars))
    /\ mem_ids' = mem_ids + 1
    /\ turn' = [turn EXCEPT !.model_calls = @ + 1]
    /\ mem_pc' = "after_agent"
    /\ UNCHANGED <<context, db_messages, db_summaries, persist_tasks, updates,
                   retrieval, retrieved, compacted>>

\* The call of the main model raises: wrap_model_call has no try around the
\* handler, ainvoke raises and chat re-raises.
ModelFails ==
    /\ UNCHANGED <<qg_vars, reg_vars, hitl_vars, fn_vars, cp_vars>>
    /\ mem_pc = "model"
    /\ turn' = [turn EXCEPT !.model_failed = TRUE]
    /\ mem_pc' = "failed"
    /\ UNCHANGED <<context, buffer, db_messages, db_summaries, persist_tasks,
                   updates, retrieval, retrieved, mem_ids, compacted>>

\* The model answers with n tool calls and the tools answer each of them.
ModelAnswersToolCalls(n) ==
    /\ UNCHANGED <<qg_vars, reg_vars, hitl_vars, fn_vars, cp_vars>>
    /\ mem_pc = "model"
    /\ mem_ids + n <= MaxMessages
    /\ buffer' = Append(buffer, Message(mem_ids, "ai_call", 0))
                     \o ToolMessages(mem_ids + 1, n)
    /\ mem_ids' = mem_ids + 1 + n
    /\ turn' = [turn EXCEPT !.model_calls = @ + 1]
    /\ mem_pc' = "before_model"
    /\ UNCHANGED <<context, db_messages, db_summaries, persist_tasks, updates,
                   retrieval, retrieved, compacted>>

\* PersistenceMiddleware.after_agent
AfterAgent ==
    /\ UNCHANGED <<qg_vars, reg_vars, hitl_vars, fn_vars, cp_vars>>
    /\ mem_pc = "after_agent"
    /\ LET last_msg == buffer[Len(buffer)]
       IN db_messages' = IF context /\ last_msg.kind = "ai" /\ last_msg.chars > 0
                         THEN SaveMessage(db_messages, last_msg, "ai")
                         ELSE db_messages
    /\ mem_pc' = "idle"
    /\ UNCHANGED <<context, buffer, db_summaries, persist_tasks, updates,
                   retrieval, retrieved, mem_ids, turn, compacted>>

\* _do_persist in a thread of _executor: save_summary commits the row.  Only
\* the recovery of a later turn reads the row, so the commit is placed
\* between two turns.
PersistSummary(task) ==
    /\ UNCHANGED <<qg_vars, reg_vars, hitl_vars, fn_vars, cp_vars>>
    /\ mem_pc = "idle"
    /\ task \in persist_tasks
    /\ db_summaries' = Append(db_summaries, task)
    /\ persist_tasks' = persist_tasks \ {task}
    /\ UNCHANGED <<context, buffer, db_messages, mem_pc, updates, retrieval,
                   retrieved, mem_ids, turn, compacted>>

\* _do_persist catches the exception of save_summary and logs it.
PersistSummaryFails(task) ==
    /\ UNCHANGED <<qg_vars, reg_vars, hitl_vars, fn_vars, cp_vars>>
    /\ mem_pc = "idle"
    /\ task \in persist_tasks
    /\ persist_tasks' = persist_tasks \ {task}
    /\ UNCHANGED <<context, buffer, db_messages, db_summaries, mem_pc, updates,
                   retrieval, retrieved, mem_ids, turn, compacted>>

PersistSummaryRuns == \E task \in persist_tasks : PersistSummary(task)

PersistSummaryRunsAndFails == \E task \in persist_tasks : PersistSummaryFails(task)

\* _do_persist in a thread of _executor, at whatever point of the turns of
\* the session the thread runs: fails is an exception of save_summary or of
\* save_summary_vector, caught at line 322.
DoPersist(task, fails) ==
    /\ UNCHANGED <<qg_vars, reg_vars, hitl_vars, fn_vars, cp_vars>>
    /\ task \in persist_tasks
    /\ db_summaries' = IF fails THEN db_summaries ELSE Append(db_summaries, task)
    /\ persist_tasks' = persist_tasks \ {task}
    /\ UNCHANGED <<context, buffer, db_messages, mem_pc, updates, retrieval,
                   retrieved, mem_ids, turn, compacted>>

WorkerRuns == \E task \in persist_tasks : DoPersist(task, FALSE)

WorkerRunsAndFails == \E task \in persist_tasks : DoPersist(task, TRUE)

\* The turns of a session whose Relevance Index answers with no summary.
MemNext ==
    \/ \E fresh \in BOOLEAN, chars \in InboundChars \ {0} :
          TurnStart(fresh, chars, MaxMessages)
    \/ \E db_fails \in BOOLEAN : BeforeAgentRecover(db_fails)
    \/ RetrieveStart(FALSE)
    \/ IndexAnswers(0)
    \/ RetrieveReturn
    \/ PersistHuman
    \/ \E outcome \in SummaryOutcomes : BeforeModel(outcome)
    \/ ModelAnswersText
    \/ \E n \in ToolCallCounts : ModelAnswersToolCalls(n)
    \/ AfterAgent
    \/ PersistSummaryRuns
    \/ PersistSummaryRunsAndFails

\* The turns of a session whose inbound messages are short and whose model
\* answers with a text or fails, with every behaviour of the Relevance Index.
RetrievalNext ==
    \/ \E fresh \in BOOLEAN, chars \in InboundChars \ {12000} :
          TurnStart(fresh, chars, MaxRetrievalMessages)
    \/ BeforeAgentRecover(FALSE)
    \/ \E loop_running \in BOOLEAN : RetrieveStart(loop_running)
    \/ \E n \in 0 .. 1 : IndexAnswers(n)
    \/ IndexRaises
    \/ RetrieveTimeout
    \/ RetrieveReturn
    \/ RetrieveRaise
    \/ TurnFailed
    \/ PersistHuman
    \/ BeforeModel("text")
    \/ ModelAnswersText
    \/ ModelFails
    \/ AfterAgent

\* The turns of a session whose model answers with a text, with the threads
\* of _executor running beside them.
PersistNext ==
    \/ \E fresh \in BOOLEAN, chars \in InboundChars \ {0} :
          TurnStart(fresh, chars, MaxPersistMessages)
    \/ BeforeAgentRecover(FALSE)
    \/ RetrieveStart(FALSE)
    \/ IndexAnswers(0)
    \/ RetrieveReturn
    \/ PersistHuman
    \/ BeforeModel("text")
    \/ ModelAnswersText
    \/ AfterAgent
    \/ WorkerRuns
    \/ WorkerRunsAndFails

\* The turns CrossBorderAgent.chat and chat_stream put through the graph.
ChatNext ==
    \/ \E fresh \in BOOLEAN, chars \in InboundChars \ {0} :
          TurnStart(fresh, chars, MaxMessages)
    \/ BeforeAgentRecover(FALSE)
    \/ PersistHuman
    \/ BeforeModel("text")
    \/ ModelAnswersText
    \/ \E n \in ToolCallCounts : ModelAnswersToolCalls(n)
    \/ AfterAgent

(***************************************************************************)
(* Memory: _retrieve_async and _split_messages called on their own         *)
(***************************************************************************)

max_retrieved_summaries == 3

\* min_retrieval_score = 0.3, in hundredths.
min_retrieval_score == 30

\* The bound on the hits the unscoped search answers with.
MaxUnscopedHits == 2

\* The scores of the hits, in hundredths.
HitScores == {20, 30, 50}

CurrentSession == "s1"

HitSessions == {CurrentSession, "s2"}

\* A dict of hybrid_search; query is the search it answers and source the
\* tag _retrieve_async gives it.
Hit(score, session_id, query) ==
    [score |-> score, session_id |-> session_id, query |-> query, source |-> "none"]

SeqsUpTo(S, n) == UNION {[1 .. k -> S] : k \in 0 .. n}

\* What hybrid_search(session_id=session_id, top_k) can answer: hits of the
\* session.
ScopedResults ==
    SeqsUpTo({Hit(score, CurrentSession, "scoped") : score \in HitScores},
             max_retrieved_summaries)

\* What hybrid_search(session_id=None, top_k) can answer.
UnscopedResults ==
    SeqsUpTo({Hit(score, session_id, "unscoped") :
                  score \in HitScores, session_id \in HitSessions},
             MaxUnscopedHits)

\* A filter that lets every score through.
AnyScore(r) == TRUE

\* lines 229 and 239: r.get("score", 0) >= self.min_retrieval_score
AtLeastMinimum(r) == r.score >= min_retrieval_score

\* lines 228-231: the hits of the session's search.
RECURSIVE CurrentHits(_)
CurrentHits(results) ==
    IF results = <<>> THEN <<>>
    ELSE (IF AtLeastMinimum(results[1])
          THEN <<[results[1] EXCEPT !.source = "current"]>> ELSE <<>>)
         \o CurrentHits(Tail(results))

\* lines 236-241: the hits of the unscoped search, without those of the session.
RECURSIVE HistoryHits(_, _)
HistoryHits(results, session_id) ==
    IF results = <<>> THEN <<>>
    ELSE (IF results[1].session_id # session_id /\ AtLeastMinimum(results[1])
          THEN <<[results[1] EXCEPT !.source = "history"]>> ELSE <<>>)
         \o HistoryHits(Tail(results), session_id)

\* The place of r in a list sorted by score, highest first: after the
\* entries whose score is at least r's, as the stable sort leaves it.
RECURSIVE InsertByScore(_, _)
InsertByScore(sorted, r) ==
    IF sorted = <<>> THEN <<r>>
    ELSE IF sorted[1].score >= r.score
         THEN <<sorted[1]>> \o InsertByScore(Tail(sorted), r)
         ELSE <<r>> \o sorted

\* line 243: all_results.sort(key=score, reverse=True)
RECURSIVE SortByScore(_)
SortByScore(all_results) ==
    IF all_results = <<>> THEN <<>>
    ELSE InsertByScore(SortByScore(SubSeq(all_results, 1, Len(all_results) - 1)),
                       all_results[Len(all_results)])

\* _retrieve_async
RetrieveAsync(scoped, unscoped, session_id) ==
    LET all_results == CurrentHits(scoped) \o HistoryHits(unscoped, session_id)
        sorted == SortByScore(all_results)
    IN SubSeq(sorted, 1, Min(max_retrieved_summaries, Len(sorted)))

\* _retrieve_async is called with the answers of the two searches.
SearchCalls ==
    {[fn |-> "retrieve_async", scoped |-> scoped, unscoped |-> unscoped,
      done |-> FALSE, result |-> <<>>] :
         scoped \in ScopedResults, unscoped \in UnscopedResults}

SearchCalled == call \in SearchCalls

RetrieveAsyncReturns ==
    /\ UNCHANGED <<qg_vars, reg_vars, hitl_vars, mem_vars, cp_vars>>
    /\ call.fn = "retrieve_async"
    /\ ~call.done
    /\ call' = [call EXCEPT !.done = TRUE,
                            !.result = RetrieveAsync(call.scoped, call.unscoped,
                                                     CurrentSession)]

SearchNext == RetrieveAsyncReturns

\* C32: the list _retrieve_async returns has at most
\* max_retrieved_summaries entries, is sorted by score, highest first, has
\* no entry under min_retrieval_score and no hit of the unscoped search
\* whose session is the current one, and every entry is tagged: current for
\* a hit of the session's search, history for the others.
C32_RetrievedListIsFilteredAndSorted ==
    (call.fn = "retrieve_async" /\ call.done)
    => LET result == call.result
       IN /\ Len(result) <= max_retrieved_summaries
          /\ \A i \in 1 .. Len(result) - 1 : result[i].score >= result[i + 1].score
          /\ \A i \in 1 .. Len(result) :
                 /\ result[i].score >= min_retrieval_score
                 /\ ~(result[i].query = "unscoped"
                      /\ result[i].session_id = CurrentSession)
                 /\ result[i].source = IF result[i].query = "scoped"
                                       THEN "current" ELSE "history"

\* Five hits passed the filters, of both searches, the unscoped search also
\* answered with a hit of the session, and the three best were returned.
C32_Witness ==
    /\ call.fn = "retrieve_async"
    /\ call.done
    /\ Len(call.scoped) = 3
    /\ \E i \in 1 .. Len(call.scoped) : call.scoped[i].score < min_retrieval_score
    /\ \E i \in 1 .. Len(call.unscoped) : call.unscoped[i].session_id = CurrentSession
    /\ Len(call.result) = max_retrieved_summaries
    /\ call.result[1].source = "history"
    /\ call.result[2].source = "current"

\* The bound on the length of the buffers _split_messages is called with.
MaxSplitLen == 6

SplitKinds == {"human", "ai", "tool"}

\* The buffers of up to MaxSplitLen messages, of every arrangement of kinds.
SplitBuffers ==
    {[i \in 1 .. Len(kinds) |-> Message(i, kinds[i], ReplyChars)] :
        kinds \in SeqsUpTo(SplitKinds, MaxSplitLen)}

SplitCalls ==
    {[fn |-> "split_messages", messages |-> messages, done |-> FALSE,
      result |-> SplitMessages(<<>>)] : messages \in SplitBuffers}

SplitCalled == call \in SplitCalls

SplitMessagesReturns ==
    /\ UNCHANGED <<qg_vars, reg_vars, hitl_vars, mem_vars, cp_vars>>
    /\ call.fn = "split_messages"
    /\ ~call.done
    /\ call' = [call EXCEPT !.done = TRUE, !.result = SplitMessages(call.messages)]

SplitNext == SplitMessagesReturns

SplitReturned == call.fn = "split_messages" /\ call.done

\* The prefix followed by the kept window is the buffer.
SplitKeepsOrder ==
    (SplitReturned /\ ~call.result.error)
    => call.result.summarize \o call.result.keep = call.messages

\* The kept window of a long buffer has messages_to_keep messages or more.
SplitKeepsWindow ==
    (SplitReturned /\ ~call.result.error /\ Len(call.messages) > messages_to_keep)
    => Len(call.result.keep) >= messages_to_keep

\* C38: _split_messages returns without an error a prefix and a kept window
\* that together are the buffer in its order, and the kept window of a
\* buffer of more than messages_to_keep messages has messages_to_keep
\* messages or more.
C38_SplitKeepsOrderAndWindow ==
    SplitReturned => (~call.result.error /\ SplitKeepsOrder /\ SplitKeepsWindow)

(***************************************************************************)
(* Memory: properties                                                      *)
(***************************************************************************)

RowAsMessage(row) == Message(row.msg_id, row.role, row.chars)

RECURSIVE RowsAsMessages(_)
RowsAsMessages(rows) ==
    IF rows = <<>> THEN <<>>
    ELSE <<RowAsMessage(rows[1])>> \o RowsAsMessages(Tail(rows))

\* The k most recent rows of chat_messages, in arrival order.
LastPersisted(k) ==
    SubSeq(db_messages, Len(db_messages) - Min(k, Len(db_messages)) + 1,
           Len(db_messages))

\* The rows of the messages that arrived after message b.
ArrivedAfter(row, b) == row.msg_id > b

PersistedAfter(b) ==
    LET After(row) == ArrivedAfter(row, b) IN SelectSeq(db_messages, After)

\* MemoryMiddleware.before_agent has returned after a recovery that read the
\* tables.
Recovered == mem_pc = "persist_human" /\ context /\ updates.ran

\* C15: on a fresh execution of a session without a persisted summary, the
\* buffer after recovery is the last messages_to_keep persisted messages, in
\* arrival order, followed by the inbound message once.
C15_RecoverySeedsLastK ==
    (Recovered /\ updates.summary = NoSummary)
    => buffer = RowsAsMessages(LastPersisted(messages_to_keep)) \o <<turn.inbound>>

\* C16: a recovery that reads a persisted summary covering [a, b] yields the
\* summary message followed by every persisted message that arrived after b,
\* in order (and the inbound message after them).
C16_SummaryRoundTrip ==
    (Recovered /\ updates.summary # NoSummary)
    => buffer = <<Message(updates.summary.summary_id, "summary", ReplyChars)>>
                \o RowsAsMessages(PersistedAfter(updates.summary.mes_id_end))
                \o <<turn.inbound>>

\* C17: when the search of the Relevance Index raises, the turn does not
\* fail: before_agent returns, no retrieved context is set and the rewrite of
\* the recovery is applied.
C17_IndexFailureDegrades ==
    retrieval.task = "raised"
    => /\ mem_pc # "failed"
       /\ mem_pc \notin {"before_agent", "retrieve", "waiting"}
          => /\ retrieved = 0
             /\ updates.set => SubSeq(buffer, 1, Len(updates.messages)) = updates.messages

\* C18: a turn that waits for the retrieval gets to the model call, or the
\* Relevance Index has answered: the wait does not last for ever when the
\* index stays silent.
C18_RetrievalWaitIsBounded ==
    (mem_pc = "waiting") ~> (mem_pc = "model" \/ retrieval.task # "running")

\* The number of consecutive ToolMessages that end at index i (from 0).
RECURSIVE ToolRunEndingAt(_, _)
ToolRunEndingAt(messages, i) ==
    IF i >= 0 /\ i < Len(messages) /\ messages[i + 1].kind = "tool"
    THEN 1 + ToolRunEndingAt(messages, i - 1)
    ELSE 0

\* before_model has just replaced the messages by a summary and a window.
Compacted == mem_pc = "model" /\ compacted.done

NominalSplit == Len(compacted.before) - messages_to_keep

\* C19 as stated: after compaction the buffer has at most
\* messages_to_keep + 1 messages, whatever sits at the split boundary.
C19_BufferAtMostKeepPlusOne ==
    Compacted => Len(buffer) <= messages_to_keep + 1

\* C19, amended: after compaction the buffer has the summary message, the
\* messages_to_keep last messages and the messages the split stepped back
\* over: one for each of the consecutive tool messages that end at the
\* nominal split point.
C19_BufferIsKeepPlusOnePlusToolRun ==
    Compacted
    => Len(buffer) = messages_to_keep + 1
                     + ToolRunEndingAt(compacted.before, NominalSplit)

\* A compaction whose nominal split point is the second of two consecutive
\* tool messages: the buffer has messages_to_keep + 3 messages.
C19_Witness ==
    /\ Compacted
    /\ ToolRunEndingAt(compacted.before, NominalSplit) = 2
    /\ Len(buffer) = messages_to_keep + 3

\* C20: after compaction the oldest kept message is no tool message, and
\* when the nominal split point falls on tool messages the kept window
\* begins with the tool call that produced them.
C20_KeptWindowStartsBeforeToolCall ==
    Compacted
    => /\ buffer[1].kind = "summary"
       /\ buffer[2].kind # "tool"
       /\ ToolRunEndingAt(compacted.before, NominalSplit) > 0
          => /\ buffer[2].kind = "ai_call"
             /\ \A i \in 1 .. ToolRunEndingAt(compacted.before, NominalSplit) :
                    buffer[2 + i].kind = "tool"

\* A compaction whose nominal split point is a tool message: the window
\* begins with the tool call.
C20_Witness ==
    /\ Compacted
    /\ compacted.before[NominalSplit + 1].kind = "tool"
    /\ buffer[2].kind = "ai_call"
    /\ buffer[3].kind = "tool"

\* C21: when _generate_summary fails (the summary model raises or answers
\* with an empty text), before_model leaves the buffer as it is and submits
\* no summary for persistence: before_model removes messages from the buffer
\* only with a summary that was generated.
C21_FailedSummaryLeavesBuffer ==
    [][(mem_pc = "before_model" /\ compacted'.summary # "text")
       => (buffer' = buffer /\ persist_tasks' = persist_tasks)]_vars

\* before_model has returned after a summary generation that gave an empty
\* text, on a buffer over the trigger: the buffer is the one it was given.
C21_Witness ==
    /\ mem_pc = "model"
    /\ compacted.summary = "empty"
    /\ Len(buffer) >= max_messages_trigger
    /\ ~compacted.done

\* The rows of chat_messages written for the inbound message of the turn.
RowsOfTurn == {i \in 1 .. Len(db_messages) : db_messages[i].msg_id = turn.inbound.id}

\* C22: when the call of the main model fails, the turn fails to the caller
\* and chat_messages holds nothing of the turn: the inbound user message of
\* the failed turn has no row.
C22_FailedTurnPersistsNothing ==
    (mem_pc = "failed" /\ turn.model_failed) => RowsOfTurn = {}

\* The number of summaries the retrieval of the current turn returned: none
\* when the retrieval was skipped.
RetrievedThisTurn == IF retrieval.task = "done" THEN retrieval.results ELSE 0

\* C28: at the model call of a turn the retrieved summaries of the context
\* are the result of the retrieval of that turn: a turn whose retrieval is
\* skipped or returns nothing sees no summaries of an earlier turn.
C28_RetrievedContextIsOfThisTurn ==
    mem_pc = "model" => retrieved = RetrievedThisTurn

\* The persisted messages a persisted summary covers.
CoveredBy(summary) ==
    {i \in 1 .. Len(db_messages) : db_messages[i].msg_id \in summary.msg_ids}

\* C29: the covered ranges of the summaries persisted for the session do not
\* overlap: no persisted message is covered by two summaries.
C29_SummaryRangesDisjoint ==
    \A i, j \in 1 .. Len(db_summaries) :
        i # j => CoveredBy(db_summaries[i]) \cap CoveredBy(db_summaries[j]) = {}

\* C30: before_model runs the compaction (it gets to the summary model) if
\* and only if the buffer has max_messages_trigger messages or more, or its
\* messages sum to max_tokens_trigger tokens or more at a third of a token
\* per character; when the condition is false, or the buffer has at most
\* messages_to_keep messages, the buffer is unchanged and no model is called.
C30_CompactionRunsIffTriggered ==
    [][mem_pc = "before_model"
       => /\ (ShouldSummarize(buffer) /\ Len(buffer) > messages_to_keep)
             => compacted'.summary # "not_called"
          /\ (~ShouldSummarize(buffer) \/ Len(buffer) <= messages_to_keep)
             => (buffer' = buffer /\ compacted'.summary = "not_called")]_vars

\* The messages a compaction removed: those of the buffer before that are
\* not in the buffer after.
RemovedPrefix ==
    LET Gone(m) == \A i \in 1 .. Len(buffer) : buffer[i] # m
    IN SelectSeq(compacted.before, Gone)

\* C31: after a compaction the buffer is the summary message followed by
\* the kept window, the messages removed are a prefix of the buffer before,
\* and the summary submitted for persistence has the ids of the first and
\* of the last removed message; 11 messages with no tool message at the
\* nominal split give the prefix 1 to 7 and the window 8 to 11.
C31_CompactionReplacesPrefix ==
    Compacted
    => LET before == compacted.before
           n == Len(RemovedPrefix)
       IN /\ n >= 1
          /\ RemovedPrefix = SubSeq(before, 1, n)
          /\ buffer[1].kind = "summary"
          /\ Tail(buffer) = SubSeq(before, n + 1, Len(before))
          /\ \E task \in persist_tasks :
                 /\ task.summary_id = buffer[1].id
                 /\ task.mes_id_start = before[1].id
                 /\ task.mes_id_end = before[n].id
          /\ (Len(before) = 11 /\ before[8].kind # "tool")
             => (n = 7 /\ Tail(buffer) = SubSeq(before, 8, 11))

\* A buffer of 11 messages was compacted: the summary covers messages 1 to
\* 7 and the buffer is the summary and messages 8 to 11.
C31_Witness ==
    /\ Compacted
    /\ Len(compacted.before) = 11
    /\ compacted.before[8].kind # "tool"
    /\ Len(buffer) = 5
    /\ \E task \in persist_tasks :
           /\ task.summary_id = buffer[1].id
           /\ task.mes_id_start = compacted.before[1].id
           /\ task.mes_id_end = compacted.before[7].id

InBeforeAgent == mem_pc \in {"before_agent", "retrieve", "waiting"}

\* _recover_history was called and the Turn Store raised.
RecoveryFailed == context /\ Len(buffer) <= 1 /\ ~updates.ran

\* C33: a step of before_agent leaves the buffer as it is or makes it the
\* recovered history followed by the inbound message, the latter only when
\* the buffer held at most one message and the recovery returned a message;
\* when the Turn Store raised in the recovery the buffer stays as it is and
\* the hook goes on to its next step.
C33_BeforeAgentKeepsOrReplaces ==
    [][InBeforeAgent
       => LET recovered == RecoverHistory(db_messages, db_summaries, FALSE)
          IN /\ \/ buffer' = buffer
                \/ /\ context
                   /\ Len(buffer) <= 1
                   /\ recovered # <<>>
                   /\ buffer' = recovered \o <<turn.inbound>>
             /\ (mem_pc = "before_agent" /\ RecoveryFailed')
                => (buffer' = buffer /\ mem_pc' \in {"retrieve", "persist_human"})
             /\ (mem_pc # "before_agent" /\ RecoveryFailed)
                => (buffer' = buffer /\ mem_pc' \in {"waiting", "persist_human"})]_vars

\* before_agent has replaced a buffer of one message by the summary, the
\* messages persisted after it and the inbound message.
C33_Witness ==
    /\ mem_pc = "persist_human"
    /\ updates.set
    /\ updates.summary # NoSummary
    /\ Len(buffer) >= 3
    /\ buffer[1].kind = "summary"
    /\ buffer[Len(buffer)] = turn.inbound

\* before_agent has returned with the buffer of one message it was given:
\* the Turn Store, which holds messages, raised in the recovery.
C33_RecoveryFailedReached ==
    /\ mem_pc = "persist_human"
    /\ RecoveryFailed
    /\ db_messages # <<>>
    /\ buffer = <<turn.inbound>>

\* C34: before_model hands the summary to the pool and returns the compacted
\* buffer with the task still waiting; a step of a persistence thread,
\* whether it commits or fails, leaves the buffer and the position of the turn
\* as they are; and no step fails the turn.
C34_PersistenceDoesNotHoldTheTurn ==
    [][/\ (mem_pc = "before_model" /\ mem_pc' = "model" /\ compacted'.done)
          => /\ Cardinality(persist_tasks') = Cardinality(persist_tasks) + 1
             /\ \E task \in persist_tasks' \ persist_tasks :
                    task.summary_id = buffer'[1].id
             /\ buffer' = <<buffer'[1]>> \o SplitMessages(buffer).keep
       /\ (persist_tasks' # persist_tasks /\ persist_tasks' \subseteq persist_tasks)
          => /\ buffer' = buffer
             /\ mem_pc' = mem_pc
             /\ turn' = turn
       /\ mem_pc' # "failed"]_vars

\* The turn that compacted the buffer has ended with its answer while the
\* task of its summary has not run.
C34_Witness ==
    /\ mem_pc = "idle"
    /\ compacted.done
    /\ buffer[1].kind = "summary"
    /\ buffer[Len(buffer)].kind = "ai"
    /\ \E task \in persist_tasks : task.summary_id = buffer[1].id
    /\ db_summaries = <<>>

\* A persistence thread has failed in the middle of the turn that submitted
\* its task.
C34_FailedInTurnReached ==
    /\ mem_pc = "after_agent"
    /\ compacted.done
    /\ persist_tasks = {}
    /\ db_summaries = <<>>

InboundIsPersisted ==
    \E i \in 1 .. Len(db_messages) : db_messages[i].msg_id = turn.inbound.id

PersistenceIsActive ==
    mem_pc \in {"before_model", "model", "after_agent"} => InboundIsPersisted

CompactionIsActive == mem_pc = "model" => Len(buffer) < max_messages_trigger

\* C37: a turn of chat runs with the runtime context, so that its inbound
\* message is in the Turn Store once the persistence hook has run, and no
\* model call is made on a buffer of max_messages_trigger messages or more.
C37_ChatTurnsHaveContext ==
    turn.turns > 0
    => /\ context
       /\ PersistenceIsActive
       /\ CompactionIsActive

\* C39: when no persistence task is left, the summary the lookup returns is
\* the one of the last compaction among those committed; the summary ids
\* grow in the order of the compactions.
C39_LatestSummaryIsOfLastCompaction ==
    (persist_tasks = {} /\ db_summaries # <<>>)
    => \A i \in 1 .. Len(db_summaries) :
           db_summaries[i].summary_id <= GetLatestSummary(db_summaries).summary_id

MemIdle ==
    /\ context = FALSE
    /\ buffer = <<>>
    /\ db_messages = <<>>
    /\ db_summaries = <<>>
    /\ persist_tasks = {}
    /\ mem_pc = "idle"
    /\ updates = NoUpdates
    /\ retrieval = NoRetrieval
    /\ retrieved = 0
    /\ mem_ids = 1
    /\ turn = NewTurn
    /\ compacted = NoCompaction

RegIdle ==
    /\ agent_cache = [k \in CacheKeys |-> None]
    /\ factory_lock = 0
    /\ instances = <<>>
    /\ callers = [c \in Callers |-> IdleCaller]

GuardInit == QGInit /\ RegIdle /\ HitlInit /\ MemIdle /\ CallIdle /\ NoThreads

SpecGuard == GuardInit /\ [][QGNext]_vars

\* Every handler call returns and the loop goes on after it.
SpecGuardLive == GuardInit /\ [][QGCoreNext]_vars /\ WF_vars(QGCoreNext)

RegistryInit == QGIdle /\ RegInit /\ HitlInit /\ MemIdle /\ CallIdle /\ NoThreads

SpecRegistry == RegistryInit /\ [][RegNext]_vars

\* The registry under the scheduling of one asyncio event loop.
SpecRegistryLoop == RegistryInit /\ [][RegLoopNext]_vars

HandlesInit == QGIdle /\ RegInit /\ HitlInit /\ MemIdle /\ CallIdle /\ NoThreads

SpecHandles == HandlesInit /\ [][HandlesNext]_vars

ThreadInit == QGIdle /\ RegIdle /\ HitlInit /\ MemIdle /\ CallIdle /\ NoThreads

SpecHitl == ThreadInit /\ [][HitlNext]_vars

SpecDecision == ThreadInit /\ [][DecisionNext]_vars

SearchInit == QGIdle /\ RegIdle /\ HitlInit /\ MemIdle /\ SearchCalled /\ NoThreads

\* _retrieve_async on every answer of the two searches.
SpecSearch == SearchInit /\ [][SearchNext]_vars

SplitInit == QGIdle /\ RegIdle /\ HitlInit /\ MemIdle /\ SplitCalled /\ NoThreads

SpecSplit == SplitInit /\ [][SplitNext]_vars

MemoryInit == QGIdle /\ RegIdle /\ HitlInit /\ MemInit /\ CallIdle /\ NoThreads

SpecMemory == MemoryInit /\ [][MemNext]_vars

SpecRetrieval == MemoryInit /\ [][RetrievalNext]_vars

SpecPersist == MemoryInit /\ [][PersistNext]_vars

ChatInit == QGIdle /\ RegIdle /\ HitlInit /\ InvokedBy("chat") /\ CallIdle /\ NoThreads

SpecChat == ChatInit /\ [][ChatNext]_vars

\* The steps of the process itself: every one of them is taken when it stays
\* possible.  The answers of the Relevance Index and the arrival of a turn
\* are not among them.
RetrievalProgress ==
    \/ BeforeAgentRecover(FALSE)
    \/ \E loop_running \in BOOLEAN : RetrieveStart(loop_running)
    \/ RetrieveTimeout
    \/ RetrieveReturn
    \/ RetrieveRaise
    \/ TurnFailed
    \/ PersistHuman
    \/ BeforeModel("text")
    \/ ModelAnswersText
    \/ AfterAgent

SpecRetrievalLive ==
    MemoryInit /\ [][RetrievalNext]_vars /\ WF_vars(RetrievalProgress)

====
